---- MODULE Spec2Model ----
(***************************************************************************)
(* State-machine model of the up-streamer routing and dispatch engine:     *)
(* the route table, the refcounted egress pool (one broadcast queue and    *)
(* one dispatch worker per output transport), the refcounted ingress       *)
(* listener registry with rollback, the publish-route resolver, and the    *)
(* hot path transport -> listener -> queue -> worker -> send.              *)
(***************************************************************************)
EXTENDS Integers, Sequences, FiniteSets, Bags, TLC

\* ------------------------------------------------------------------ bounds
MaxListeners == 2     \* listener instances alive at once
MaxChans == 2         \* broadcast channels (and their workers) alive at once
MaxRoutes == 3        \* routes installed at once
MaxLag == 1           \* overrun messages a receiver may have pending
MaxStale == 0         \* unregister failures a transport may have outstanding
MessageQueueSize == 1 \* queue_capacity handed to UStreamer::new
MaxQueueSize == 2     \* largest queue_capacity of the observed data plane
MaxMessages == 3      \* messages the ingress transports deliver while observed
MaxRecords == 3       \* subscription records handed to the resolver
MaxInFlight == 1      \* on_receive callbacks running at once
MaxUnregisterFailures == 2 \* unregister failures of a faulty ingress transport

\* --------------------------------------------------------------- universe
Transports == {"T1", "T2", "T3", "T4"}

\* Transport handles are instances; two instances may be configured alike.
Config(transport) ==
    IF transport \in {"T1", "T2"} THEN "zenoh"
    ELSE IF transport \in {"T3", "T4"} THEN "mqtt" ELSE ""

Endpoint(name, authority, transport) ==
    [name |-> name, authority |-> authority, transport |-> transport]

\* The endpoints callers pass as ingress and as egress.
Ingresses == { Endpoint("in1", "a", "T1"), Endpoint("in2", "a", "T2") }
Egresses == { Endpoint("out3", "b", "T3"), Endpoint("out4", "b", "T4"),
              Endpoint("back4", "a", "T4") }

NoEndpoint == Endpoint("", "", "")

\* A u32 ue_id is kept as its two 16-bit halves <<high, low>>.
UUri(authority, ue_id, version, resource_id) ==
    [authority_name |-> authority, ue_id |-> ue_id,
     ue_version_major |-> version, resource_id |-> resource_id]

Subscription(topic, subscriber) == [topic |-> topic, subscriber |-> subscriber]

\* Subscription directories the provider may answer with at construction.
SubscriptionDirectories ==
    { { Subscription(UUri("a", <<0, 23457>>, 1, 32769), UUri("c", <<0, 22136>>, 1, 4660)),
        Subscription(UUri("a", <<0, 23456>>, 1, 32769), UUri("b", <<0, 22136>>, 1, 4660)),
        Subscription(UUri("a", <<0, 23456>>, 1, 32769), UUri("b", <<0, 22137>>, 1, 4660)),
        Subscription(UUri("z", <<0, 23456>>, 1, 32769), UUri("b", <<0, 22138>>, 1, 4660)),
        Subscription(UUri("*", <<0, 23456>>, 1, 32770), UUri("b", <<0, 22136>>, 1, 4660)) } }

UMessage(id, payload_format) == [id |-> id, payload_format |-> payload_format]

Messages == { UMessage(1, "PROTOBUF"), UMessage(1, "SHM") }

NoMessage == UMessage(0, "")

Listeners == 1 .. MaxListeners
Chans == 1 .. MaxChans

\* ---------------------------------------------------------------- helpers
RECURSIVE Perms(_)
Perms(S) ==
    IF S = {} THEN { <<>> }
    ELSE UNION { { <<x>> \o p : p \in Perms(S \ {x}) } : x \in S }

Without(f, k) == [x \in DOMAIN f \ {k} |-> f[x]]

Min(S) == CHOOSE x \in S : \A y \in S : x <= y

Range(f) == { f[x] : x \in DOMAIN f }

\* The elements of a set in one of the orders an iteration may yield them.
RECURSIVE SeqOf(_)
SeqOf(S) ==
    IF S = {} THEN <<>>
    ELSE LET x == CHOOSE y \in S : TRUE IN <<x>> \o SeqOf(S \ {x})

\* ------------------------------------------------------------- pure code
\* Variant: the wildcard ue_id with only its low half set.
uauthority_to_uuri_low16(authority_name) ==
    UUri(authority_name, <<0, 65535>>, 255, 65535)

uauthority_to_uuri(authority_name) ==
    UUri(authority_name, <<65535, 65535>>, 255, 65535)

\* Two keys are equal iff they wrap the same transport instance.
TransportIdentityKey(transport) == transport

\* Variant: the transports enter the tuple by their configuration.
build_forwarding_rule_by_value(in, out) ==
    <<in.authority, out.authority, Config(in.transport), Config(out.transport)>>

build_forwarding_rule(in, out) ==
    <<in.authority, out.authority,
      TransportIdentityKey(in.transport), TransportIdentityKey(out.transport)>>

\* The subscription cache answers with the subscribers registered under the
\* egress authority, a wildcard subscriber authority matching any: an
\* Option, here the set of at most one lookup.
fetch_cache_entry_with_wildcard(cache, out_authority) ==
    IF \E s \in cache : s.subscriber.authority_name \in {out_authority, "*"}
    THEN { { s \in cache : s.subscriber.authority_name \in {out_authority, "*"} } }
    ELSE {}

\* None becomes the empty lookup.
lookup_route_subscribers(cache, out_authority) ==
    IF fetch_cache_entry_with_wildcard(cache, out_authority) = {}
    THEN {}
    ELSE CHOOSE subscribers \in fetch_cache_entry_with_wildcard(cache, out_authority) : TRUE

topic_matches_ingress_authority(ingress_authority, topic) ==
    topic.authority_name = "*" \/ topic.authority_name = ingress_authority

\* Variant: every topic yields a filter, whatever its authority.
derive_source_filter_for_topic_unmatched(ingress_authority, topic) ==
    { UUri(ingress_authority, topic.ue_id,
           topic.ue_version_major % 256, topic.resource_id % 65536) }

\* Variant: the filter keeps the authority of the topic.
derive_source_filter_for_topic_keeps_authority(ingress_authority, topic) ==
    IF ~topic_matches_ingress_authority(ingress_authority, topic)
    THEN {}
    ELSE { UUri(topic.authority_name, topic.ue_id,
                topic.ue_version_major % 256, topic.resource_id % 65536) }

\* Option<UUri> as a set of at most one element.
derive_source_filter_for_topic(ingress_authority, topic) ==
    IF ~topic_matches_ingress_authority(ingress_authority, topic)
    THEN {}
    ELSE { UUri(ingress_authority, topic.ue_id,
                topic.ue_version_major % 256, topic.resource_id % 65536) }

\* URIs are the same filter iff they are structurally equal.
UriIdentityKey(uri) ==
    <<uri.authority_name, uri.ue_id, uri.ue_version_major, uri.resource_id>>

\* entry(key).or_insert(source_uri) for each derived URI (at most one).
OrInsert(source_filters, derived) ==
    source_filters @@ [k \in { UriIdentityKey(u) : u \in derived } |->
                          CHOOSE u \in derived : UriIdentityKey(u) = k]

\* The loop over subscribers.values(), here the sequence in which the
\* HashMap yields them.
RECURSIVE derive_source_filters_loop(_, _, _)
derive_source_filters_loop(ingress_authority, subscribers, source_filters) ==
    IF subscribers = <<>> THEN source_filters
    ELSE derive_source_filters_loop(
             ingress_authority, Tail(subscribers),
             OrInsert(source_filters,
                      derive_source_filter_for_topic(ingress_authority,
                                                     Head(subscribers).topic)))

\* The SourceFilterLookup, identity key -> URI.
derive_source_filters(ingress_authority, egress_authority, subscribers) ==
    derive_source_filters_loop(ingress_authority, subscribers, [k \in {} |-> k])

\* tokio::sync::broadcast::channel rounds the capacity up to a power of two.
RECURSIVE next_power_of_two_from(_, _)
next_power_of_two_from(p, n) == IF p >= n THEN p ELSE next_power_of_two_from(2 * p, n)

\* ------------------------------------------------------------------ state
VARIABLES
    subscription_cache,          \* UStreamer.subscription_cache (boot snapshot)
    registered_forwarding_rules, \* UStreamer.registered_forwarding_rules
    forwarders,                  \* TransportForwarders.forwarders: transport -> (active, sender)
    listeners,                   \* ForwardingListeners.listeners: key -> (active, listener)
    listener_sender,             \* per listener instance: the channel its sender feeds, 0 = no instance
    channels,                    \* per broadcast channel: its worker's transport and receiver view
    transport_listeners,         \* per transport: the (source, sink, listener) registrations it holds
    calls,                       \* register/unregister calls made by the last operation
    last,                        \* the last operation and its outcome
    streamer,                    \* whether UStreamer::new returned Ok(Self), and its queue size
    usubscription,               \* the subscription provider: the fetches it served
    in_flight,                   \* on_receive callbacks a transport has invoked that have not returned
    history                      \* observation log of the data plane and of route names

vars == <<subscription_cache, registered_forwarding_rules, forwarders, listeners,
          listener_sender, channels, transport_listeners, calls, last,
          streamer, usubscription, in_flight, history>>

\* The capacity of the queues the pool of the constructed streamer creates.
ChannelCapacity == next_power_of_two_from(1, streamer.message_queue_size)

NoChannel == [transport |-> "", queue |-> <<>>, lagged |-> 0]

FilterPair(source, sink) == [source |-> source, sink |-> sink]

Registration(pair, listener) ==
    [source |-> pair.source, sink |-> pair.sink, listener |-> listener]

\* The streamer's locks: the route table's, the egress pool's, the ingress
\* registry's and the subscription cache's mutex.
StreamerLocks ==
    {"registered_forwarding_rules", "forwarders", "listeners", "subscription_cache"}

\* The locks held while ForwardingListeners::insert or remove calls the
\* ingress transport: the registry guard, taken on entry and alive until
\* the function returns. The route table's and the pool's guards live
\* inside their helpers, which have returned; the cache's guard lives
\* inside lookup_route_subscribers.
HeldInRegistry == {"listeners"}

\* A register_listener or unregister_listener call on a transport, with its
\* answer and the streamer locks held when it was made.
Call(call, transport, pair, listener, ok) ==
    [call |-> call, transport |-> transport, source |-> pair.source,
     sink |-> pair.sink, listener |-> listener, ok |-> ok,
     held |-> HeldInRegistry]

Outcome(op, in, out, code, err, listener, chan, msg) ==
    [op |-> op, in |-> in, out |-> out, code |-> code, err |-> err,
     listener |-> listener, chan |-> chan, msg |-> msg, value |-> {}]

\* An outcome that carries the value the operation returned.
Returned(outcome, value) == [outcome EXCEPT !.value = value]

EmptyMap == [x \in {} |-> x]

ListenerKey(in_transport, in_authority, out_authority) ==
    <<in_transport, in_authority, out_authority>>

\* An on_receive callback running in a task of the transport that invoked
\* it: on_receive borrows the listener, so the task holds it until the
\* callback returns.
Callback(transport, listener, msg) ==
    [transport |-> transport, listener |-> listener, msg |-> msg]

\* A listener instance lives while the registry, a transport's table or a
\* running callback holds it.
ListenerAlive(l, ls, tl, running) ==
    \/ \E k \in DOMAIN ls : ls[k].listener = l
    \/ \E t \in Transports : \E r \in tl[t] : r.listener = l
    \/ \E cb \in running : cb.listener = l

DropDeadListeners(lsend, ls, tl, running) ==
    [l \in Listeners |-> IF ListenerAlive(l, ls, tl, running) THEN lsend[l] ELSE 0]

\* A broadcast channel is closed once every Sender clone is dropped: the
\* pool's and the one inside each listener instance.
SenderAlive(c, fw, lsend) ==
    \/ \E t \in DOMAIN fw : fw[t].chan = c
    \/ \E l \in Listeners : lsend[l] = c

FreeChans(chs) == { c \in Chans : chs[c].transport = "" }
FreeListeners(lsend) == { l \in Listeners : lsend[l] = 0 }

\* ------------------------------------------------------------ egress pool
\* tokio::sync::broadcast::channel(capacity) asserts capacity > 0.
BroadcastChannelPanics(capacity) == capacity = 0

\* Variant: an existing entry is reused without counting the new user.
TransportForwardersInsert_uncounted(fw, chs, out_transport) ==
    LET present == out_transport \in DOMAIN fw
        c == IF present THEN fw[out_transport].chan ELSE Min(FreeChans(chs))
    IN [forwarders |-> IF present THEN fw
                       ELSE fw @@ (out_transport :> [active |-> 1, chan |-> c]),
        channels |-> IF present THEN chs
                     ELSE [chs EXCEPT ![c] = [transport |-> out_transport,
                                              queue |-> <<>>, lagged |-> 0]],
        sender |-> c,
        panicked |-> ~present /\ BroadcastChannelPanics(streamer.message_queue_size)]

\* Variant: a new entry shares the queue and worker of an entry the pool
\* already has.
TransportForwardersInsert_one_queue(fw, chs, out_transport) ==
    LET present == out_transport \in DOMAIN fw
        shared == DOMAIN fw # {}
        c == IF present THEN fw[out_transport].chan
             ELSE IF shared THEN Min({ fw[t].chan : t \in DOMAIN fw })
             ELSE Min(FreeChans(chs))
        entry == IF present THEN fw
                 ELSE fw @@ (out_transport :> [active |-> 0, chan |-> c])
    IN [forwarders |-> [entry EXCEPT ![out_transport].active = @ + 1],
        channels |-> IF present \/ shared THEN chs
                     ELSE [chs EXCEPT ![c] = [transport |-> out_transport,
                                              queue |-> <<>>, lagged |-> 0]],
        sender |-> c,
        panicked |-> ~present /\ BroadcastChannelPanics(streamer.message_queue_size)]

TransportForwardersInsert(fw, chs, out_transport) ==
    LET present == out_transport \in DOMAIN fw
        c == IF present THEN fw[out_transport].chan ELSE Min(FreeChans(chs))
        entry == IF present THEN fw
                 ELSE fw @@ (out_transport :> [active |-> 0, chan |-> c])
    IN [forwarders |-> [entry EXCEPT ![out_transport].active = @ + 1],
        channels |-> IF present THEN chs
                     ELSE [chs EXCEPT ![c] = [transport |-> out_transport,
                                              queue |-> <<>>, lagged |-> 0]],
        sender |-> c,
        panicked |-> ~present /\ BroadcastChannelPanics(streamer.message_queue_size)]

\* Variant: remove leaves the pool as it is.
TransportForwardersRemove_kept(fw, out_transport) == fw

\* Variant: the first remove drops the entry whatever its refcount.
TransportForwardersRemove_drops_shared(fw, out_transport) ==
    IF out_transport \notin DOMAIN fw THEN fw ELSE Without(fw, out_transport)

\* Variant: an entry whose refcount reaches zero stays in the pool.
TransportForwardersRemove_keeps_entry(fw, out_transport) ==
    IF out_transport \notin DOMAIN fw THEN fw
    ELSE [fw EXCEPT ![out_transport].active = @ - 1]

TransportForwardersRemove(fw, out_transport) ==
    IF out_transport \notin DOMAIN fw THEN fw
    ELSE LET active_num == fw[out_transport].active - 1
         IN IF active_num = 0 THEN Without(fw, out_transport)
            ELSE [fw EXCEPT ![out_transport].active = active_num]

\* ------------------------------------------------------- ingress registry
RequestFilterPair(in_authority, out_authority) ==
    FilterPair(uauthority_to_uuri(in_authority), {uauthority_to_uuri(out_authority)})

PublishSourceFilters(cache, in_authority, out_authority) ==
    Range(derive_source_filters(in_authority, out_authority,
                                SeqOf(lookup_route_subscribers(cache, out_authority))))

\* Variant: the publish pairs registered so far are not put in.
Backpedal_request_only(in_authority, out_authority, order, fail_at) ==
    {RequestFilterPair(in_authority, out_authority)}

\* uuris_to_backpedal when the register call number fail_at fails; the
\* request/response pair is put in before its registration is attempted.
Backpedal(in_authority, out_authority, order, fail_at) ==
    {RequestFilterPair(in_authority, out_authority)}
        \cup { FilterPair(order[i], {}) : i \in 1 .. (fail_at - 2) }

\* Variant: every failed registration is reported as a publish failure.
RegisterNewListener_one_error_kind(ls, lsend, tl, key, in_transport, forwarding_listener, out_sender, to_register, fail_at, uuris_to_backpedal, unreg_fail) ==
    LET succeeded == IF fail_at = 0 THEN Len(to_register) ELSE fail_at - 1
        register_calls ==
            SetToBag({ Call("register", in_transport, to_register[i],
                            forwarding_listener, i # fail_at) :
                         i \in 1 .. (IF fail_at = 0 THEN Len(to_register) ELSE fail_at) })
        unregister_calls ==
            SetToBag({ Call("unregister", in_transport, pair,
                            forwarding_listener, pair \notin unreg_fail) :
                         pair \in uuris_to_backpedal })
        registered ==
            tl[in_transport]
                \cup { Registration(to_register[i], forwarding_listener) :
                         i \in 1 .. succeeded }
        unregistered ==
            { Registration(pair, forwarding_listener) :
                pair \in uuris_to_backpedal \ unreg_fail }
    IN IF fail_at = 0
       THEN [err |-> "", err_uri |-> {}, created |-> forwarding_listener,
             listeners |-> ls @@ (key :> [active |-> 1, listener |-> forwarding_listener]),
             listener_sender |-> [lsend EXCEPT ![forwarding_listener] = out_sender],
             transport_listeners |-> [tl EXCEPT ![in_transport] = registered],
             calls |-> register_calls]
       ELSE [err |-> "FailToRegisterPublishListener",
             err_uri |-> IF fail_at = 1 THEN {} ELSE {to_register[fail_at].source},
             created |-> forwarding_listener,
             listeners |-> ls,
             listener_sender |-> [lsend EXCEPT ![forwarding_listener] = out_sender],
             transport_listeners |->
                 [tl EXCEPT ![in_transport] = registered \ unregistered],
             calls |-> register_calls (+) unregister_calls]

\* Variant: a failed unregister of the rollback becomes the error returned.
RegisterNewListener_returns_rollback_error(ls, lsend, tl, key, in_transport, forwarding_listener, out_sender, to_register, fail_at, uuris_to_backpedal, unreg_fail) ==
    LET succeeded == IF fail_at = 0 THEN Len(to_register) ELSE fail_at - 1
        register_calls ==
            SetToBag({ Call("register", in_transport, to_register[i],
                            forwarding_listener, i # fail_at) :
                         i \in 1 .. (IF fail_at = 0 THEN Len(to_register) ELSE fail_at) })
        unregister_calls ==
            SetToBag({ Call("unregister", in_transport, pair,
                            forwarding_listener, pair \notin unreg_fail) :
                         pair \in uuris_to_backpedal })
        registered ==
            tl[in_transport]
                \cup { Registration(to_register[i], forwarding_listener) :
                         i \in 1 .. succeeded }
        unregistered ==
            { Registration(pair, forwarding_listener) :
                pair \in uuris_to_backpedal \ unreg_fail }
    IN IF fail_at = 0
       THEN [err |-> "", err_uri |-> {}, created |-> forwarding_listener,
             listeners |-> ls @@ (key :> [active |-> 1, listener |-> forwarding_listener]),
             listener_sender |-> [lsend EXCEPT ![forwarding_listener] = out_sender],
             transport_listeners |-> [tl EXCEPT ![in_transport] = registered],
             calls |-> register_calls]
       ELSE [err |-> IF uuris_to_backpedal \cap unreg_fail # {}
                     THEN "FailToUnregisterListener"
                     ELSE IF fail_at = 1
                     THEN "FailToRegisterNotificationRequestResponseListener"
                     ELSE "FailToRegisterPublishListener",
             err_uri |-> IF fail_at = 1 THEN {} ELSE {to_register[fail_at].source},
             created |-> forwarding_listener,
             listeners |-> ls,
             listener_sender |-> [lsend EXCEPT ![forwarding_listener] = out_sender],
             transport_listeners |->
                 [tl EXCEPT ![in_transport] = registered \ unregistered],
             calls |-> register_calls (+) unregister_calls]

\* insert() past the refcount fast path: the listener is created, the
\* request/response pair and then the publish pairs are registered, and the
\* first failing registration unregisters uuris_to_backpedal.
RegisterNewListener(ls, lsend, tl, key, in_transport, forwarding_listener, out_sender, to_register, fail_at, uuris_to_backpedal, unreg_fail) ==
    LET succeeded == IF fail_at = 0 THEN Len(to_register) ELSE fail_at - 1
        register_calls ==
            SetToBag({ Call("register", in_transport, to_register[i],
                            forwarding_listener, i # fail_at) :
                         i \in 1 .. (IF fail_at = 0 THEN Len(to_register) ELSE fail_at) })
        unregister_calls ==
            SetToBag({ Call("unregister", in_transport, pair,
                            forwarding_listener, pair \notin unreg_fail) :
                         pair \in uuris_to_backpedal })
        registered ==
            tl[in_transport]
                \cup { Registration(to_register[i], forwarding_listener) :
                         i \in 1 .. succeeded }
        unregistered ==
            { Registration(pair, forwarding_listener) :
                pair \in uuris_to_backpedal \ unreg_fail }
    IN IF fail_at = 0
       THEN [err |-> "", err_uri |-> {}, created |-> forwarding_listener,
             listeners |-> ls @@ (key :> [active |-> 1, listener |-> forwarding_listener]),
             listener_sender |-> [lsend EXCEPT ![forwarding_listener] = out_sender],
             transport_listeners |-> [tl EXCEPT ![in_transport] = registered],
             calls |-> register_calls]
       ELSE [err |-> IF fail_at = 1
                     THEN "FailToRegisterNotificationRequestResponseListener"
                     ELSE "FailToRegisterPublishListener",
             err_uri |-> IF fail_at = 1 THEN {} ELSE {to_register[fail_at].source},
             created |-> forwarding_listener,
             listeners |-> ls,
             listener_sender |-> [lsend EXCEPT ![forwarding_listener] = out_sender],
             transport_listeners |->
                 [tl EXCEPT ![in_transport] = registered \ unregistered],
             calls |-> register_calls (+) unregister_calls]

\* Variant: an insert that finds no publish source filter fails.
ForwardingListenersInsert_needs_subscribers(ls, lsend, tl, cache, in_transport, in_authority, out_authority, out_sender, order, fail_at, unreg_fail) ==
    IF ListenerKey(in_transport, in_authority, out_authority) \in DOMAIN ls
    THEN [err |-> "", err_uri |-> {}, created |-> 0,
          listeners |-> [ls EXCEPT ![ListenerKey(in_transport, in_authority,
                                                 out_authority)].active = @ + 1],
          listener_sender |-> lsend, transport_listeners |-> tl, calls |-> EmptyBag]
    ELSE IF order = <<>>
    THEN [err |-> "FailToRegisterPublishListener", err_uri |-> {}, created |-> 0,
          listeners |-> ls, listener_sender |-> lsend, transport_listeners |-> tl,
          calls |-> EmptyBag]
    ELSE RegisterNewListener(
             ls, lsend, tl, ListenerKey(in_transport, in_authority, out_authority),
             in_transport, Min(FreeListeners(lsend)), out_sender,
             <<RequestFilterPair(in_authority, out_authority)>>
                 \o [i \in 1 .. Len(order) |-> FilterPair(order[i], {})],
             fail_at, Backpedal(in_authority, out_authority, order, fail_at),
             unreg_fail)

\* Variant: no refcount fast path, every insert builds and registers a listener.
ForwardingListenersInsert_always_registers(ls, lsend, tl, cache, in_transport, in_authority, out_authority, out_sender, order, fail_at, unreg_fail) ==
    RegisterNewListener(
        Without(ls, ListenerKey(in_transport, in_authority, out_authority)),
        lsend, tl, ListenerKey(in_transport, in_authority, out_authority),
        in_transport, Min(FreeListeners(lsend)), out_sender,
        <<RequestFilterPair(in_authority, out_authority)>>
            \o [i \in 1 .. Len(order) |-> FilterPair(order[i], {})],
        fail_at, Backpedal(in_authority, out_authority, order, fail_at),
        unreg_fail)

ForwardingListenersInsert(ls, lsend, tl, cache, in_transport, in_authority, out_authority, out_sender, order, fail_at, unreg_fail) ==
    IF ListenerKey(in_transport, in_authority, out_authority) \in DOMAIN ls
    THEN [err |-> "", err_uri |-> {}, created |-> 0,
          listeners |-> [ls EXCEPT ![ListenerKey(in_transport, in_authority,
                                                 out_authority)].active = @ + 1],
          listener_sender |-> lsend, transport_listeners |-> tl, calls |-> EmptyBag]
    ELSE RegisterNewListener(
             ls, lsend, tl, ListenerKey(in_transport, in_authority, out_authority),
             in_transport, Min(FreeListeners(lsend)), out_sender,
             <<RequestFilterPair(in_authority, out_authority)>>
                 \o [i \in 1 .. Len(order) |-> FilterPair(order[i], {})],
             fail_at, Backpedal(in_authority, out_authority, order, fail_at),
             unreg_fail)

\* Variant: only the publish pairs are unregistered.
UnregisterListener_publish_only(ls, tl, key, in_transport, forwarding_listener, to_unregister, unreg_fail) ==
    [listeners |-> Without(ls, key),
     transport_listeners |->
         [tl EXCEPT ![in_transport] =
             @ \ { Registration(pair, forwarding_listener) :
                     pair \in { p \in to_unregister : p.sink = {} } \ unreg_fail }],
     calls |-> SetToBag({ Call("unregister", in_transport, pair,
                               forwarding_listener, pair \notin unreg_fail) :
                            pair \in { p \in to_unregister : p.sink = {} } })]

\* Variant: the first failed unregister ends the unregistrations.
UnregisterListener_aborts_on_failure(ls, tl, key, in_transport, forwarding_listener, to_unregister, unreg_fail) ==
    [listeners |-> Without(ls, key),
     transport_listeners |->
         IF to_unregister \cap unreg_fail # {} THEN tl
         ELSE [tl EXCEPT ![in_transport] =
                  @ \ { Registration(pair, forwarding_listener) : pair \in to_unregister }],
     calls |-> SetToBag({ Call("unregister", in_transport, pair,
                               forwarding_listener, pair \notin unreg_fail) :
                            pair \in IF to_unregister \cap unreg_fail # {}
                                     THEN to_unregister \cap unreg_fail
                                     ELSE to_unregister })]

\* remove() once the refcount reached zero: the request/response pair and
\* the publish pairs recomputed from the cache are unregistered.
UnregisterListener(ls, tl, key, in_transport, forwarding_listener, to_unregister, unreg_fail) ==
    [listeners |-> Without(ls, key),
     transport_listeners |->
         [tl EXCEPT ![in_transport] =
             @ \ { Registration(pair, forwarding_listener) :
                     pair \in to_unregister \ unreg_fail }],
     calls |-> SetToBag({ Call("unregister", in_transport, pair,
                               forwarding_listener, pair \notin unreg_fail) :
                            pair \in to_unregister })]

\* Variant: the first remove unregisters and drops the entry whatever its
\* refcount.
ForwardingListenersRemove_drops_shared(ls, tl, cache, in_transport, in_authority, out_authority, unreg_fail) ==
    LET key == ListenerKey(in_transport, in_authority, out_authority) IN
    IF key \notin DOMAIN ls
    THEN [listeners |-> ls, transport_listeners |-> tl, calls |-> EmptyBag]
    ELSE UnregisterListener(
             ls, tl, key, in_transport, ls[key].listener,
             {RequestFilterPair(in_authority, out_authority)}
                 \cup { FilterPair(source_uri, {}) :
                          source_uri \in PublishSourceFilters(cache, in_authority,
                                                              out_authority) },
             unreg_fail)

ForwardingListenersRemove(ls, tl, cache, in_transport, in_authority, out_authority, unreg_fail) ==
    LET key == ListenerKey(in_transport, in_authority, out_authority) IN
    IF key \notin DOMAIN ls
    THEN [listeners |-> ls, transport_listeners |-> tl, calls |-> EmptyBag]
    ELSE IF ls[key].active - 1 # 0
    THEN [listeners |-> [ls EXCEPT ![key].active = @ - 1],
          transport_listeners |-> tl, calls |-> EmptyBag]
    ELSE UnregisterListener(
             ls, tl, key, in_transport, ls[key].listener,
             {RequestFilterPair(in_authority, out_authority)}
                 \cup { FilterPair(source_uri, {}) :
                          source_uri \in PublishSourceFilters(cache, in_authority,
                                                              out_authority) },
             unreg_fail)

\* ------------------------------------------------------------ route table
\* Variant: a duplicate is reported as newly inserted.
insert_forwarding_rule_always_new(rules, forwarding_rule) ==
    [rules |-> rules \cup {forwarding_rule}, inserted |-> TRUE]

insert_forwarding_rule(rules, forwarding_rule) ==
    [rules |-> rules \cup {forwarding_rule}, inserted |-> forwarding_rule \notin rules]

\* Variant: an absent rule is reported as removed.
remove_forwarding_rule_always_found(rules, forwarding_rule) ==
    [rules |-> rules \ {forwarding_rule}, removed |-> TRUE]

remove_forwarding_rule(rules, forwarding_rule) ==
    [rules |-> rules \ {forwarding_rule}, removed |-> forwarding_rule \in rules]

\* Variant: the same-authority check is skipped.
SameAuthority_unchecked(in, out) == FALSE

SameAuthority(in, out) == in.authority = out.authority

\* ---------------------------------------------------------------- facade
\* Nothing is logged yet.
NoHistory ==
    [published |-> [c \in Chans |-> <<>>], sent |-> [c \in Chans |-> <<>>],
     skipped |-> [c \in Chans |-> 0], failed |-> [c \in Chans |-> 0],
     delivered |-> 0, routes |-> {}]

\* Before UStreamer::new is called: no streamer, a provider never asked.
Init ==
    /\ subscription_cache = {}
    /\ registered_forwarding_rules = {}
    /\ forwarders = EmptyMap
    /\ listeners = EmptyMap
    /\ listener_sender = [l \in Listeners |-> 0]
    /\ channels = [c \in Chans |-> NoChannel]
    /\ transport_listeners = [t \in Transports |-> {}]
    /\ calls = EmptyBag
    /\ last = Outcome("init", NoEndpoint, NoEndpoint, "", "", 0, 0, NoMessage)
    /\ streamer = [constructed |-> FALSE, message_queue_size |-> 0]
    /\ usubscription = [fetch_calls |-> 0, subscribers |-> {}]
    /\ in_flight = {}
    /\ history = NoHistory

\* What the provider answers to fetch_subscriptions: Err, or Ok with a
\* response the cache can or cannot be built from.
FetchSubscriptionsAnswer(ok, well_formed, subscriptions) ==
    [ok |-> ok, well_formed |-> well_formed, subscriptions |-> subscriptions]

ProviderAnswers ==
    { FetchSubscriptionsAnswer(TRUE, wf, d) : wf \in BOOLEAN, d \in SubscriptionDirectories }
        \cup { FetchSubscriptionsAnswer(FALSE, FALSE, {}) }

\* The request UStreamer::new builds: its subscriber is the URI with
\* authority "*", ue_id 0x0000_FFFF, version 0xFF and resource id 0xFFFF.
FetchSubscriptionsRequest ==
    [subscriber |-> UUri("*", <<0, 65535>>, 255, 65535)]

\* Variant: the provider is asked a second time.
fetch_subscriptions_twice(usub, fetch_request, answer) ==
    [usubscription |-> [usub EXCEPT !.fetch_calls = @ + 2,
                                    !.subscribers = @ \cup {fetch_request.subscriber}],
     panicked |-> ~answer.ok, response |-> answer]

\* block_on(usubscription.fetch_subscriptions(..)).expect(..): an Err from the
\* provider panics.
fetch_subscriptions(usub, fetch_request, answer) ==
    [usubscription |-> [usub EXCEPT !.fetch_calls = @ + 1,
                                    !.subscribers = @ \cup {fetch_request.subscriber}],
     panicked |-> ~answer.ok, response |-> answer]

SubscriptionCacheNew(response) ==
    [ok |-> response.well_formed,
     cache |-> IF response.well_formed THEN response.subscriptions ELSE {}]

\* UStreamer::new, called once.
new(message_queue_size, answer) ==
    /\ ~streamer.constructed
    /\ last.op = "init"
    /\ calls' = EmptyBag
    /\ UNCHANGED <<registered_forwarding_rules, forwarders, listeners, listener_sender,
                   channels, transport_listeners, in_flight>>
    /\ \E fetched \in {fetch_subscriptions(usubscription, FetchSubscriptionsRequest, answer)} :
       \E built \in {SubscriptionCacheNew(fetched.response)} :
          /\ usubscription' = fetched.usubscription
          /\ IF fetched.panicked
             THEN /\ last' = Outcome("new", NoEndpoint, NoEndpoint, "panic",
                                     "Failed to fetch subscriptions", 0, 0, NoMessage)
                  /\ UNCHANGED <<streamer, subscription_cache>>
             ELSE IF ~built.ok
             THEN /\ last' = Outcome("new", NoEndpoint, NoEndpoint, "INVALID_ARGUMENT",
                                     "Unable to create SubscriptionCache", 0, 0, NoMessage)
                  /\ UNCHANGED <<streamer, subscription_cache>>
             ELSE /\ last' = Outcome("new", NoEndpoint, NoEndpoint, "OK", "", 0, 0, NoMessage)
                  /\ streamer' = [constructed |-> TRUE,
                                  message_queue_size |-> message_queue_size]
                  /\ subscription_cache' = built.cache

\* Registrations a transport still holds for a listener the registry dropped.
StaleRegistrations ==
    { r \in UNION { transport_listeners[t] : t \in Transports } :
        \A k \in DOMAIN listeners : listeners[k].listener # r.listener }

\* The unregister calls the transport may fail in one operation.
UnregisterFailures(pairs) ==
    { f \in SUBSET pairs : Cardinality(f) + Cardinality(StaleRegistrations) <= MaxStale }

\* Room, within the bounds, for what installing the route may create.
RoomFor(in, out) ==
    /\ Cardinality(registered_forwarding_rules) < MaxRoutes
    /\ out.transport \in DOMAIN forwarders \/ FreeChans(channels) # {}
    /\ \/ ListenerKey(in.transport, in.authority, out.authority) \in DOMAIN listeners
       \/ FreeListeners(listener_sender) # {}

add_forwarding_rule(in, out, order, fail_at, unreg_fail) ==
    LET forwarding_rule == build_forwarding_rule(in, out)
        table == insert_forwarding_rule(registered_forwarding_rules, forwarding_rule)
    IN
    IF SameAuthority(in, out)
    THEN /\ last' = Outcome("add_route", in, out, "INVALID_ARGUMENT", "SameAuthority",
                            0, 0, NoMessage)
         /\ calls' = EmptyBag
         /\ UNCHANGED <<subscription_cache, registered_forwarding_rules, forwarders,
                        listeners, listener_sender, channels, transport_listeners>>
    ELSE IF ~table.inserted
    THEN /\ last' = Outcome("add_route", in, out, "ALREADY_EXISTS", "", 0, 0, NoMessage)
         /\ calls' = EmptyBag
         /\ registered_forwarding_rules' = table.rules
         /\ UNCHANGED <<subscription_cache, forwarders, listeners, listener_sender,
                        channels, transport_listeners>>
    ELSE
    /\ RoomFor(in, out)
    /\ \E pool \in {TransportForwardersInsert(forwarders, channels, out.transport)} :
       IF pool.panicked
       THEN /\ last' = Outcome("add_route", in, out, "panic",
                               "broadcast channel capacity cannot be zero", 0, 0, NoMessage)
            /\ calls' = EmptyBag
            /\ registered_forwarding_rules' = table.rules
            /\ UNCHANGED <<subscription_cache, forwarders, listeners, listener_sender,
                           channels, transport_listeners>>
       ELSE
       \E ins \in {ForwardingListenersInsert(
                      listeners, listener_sender, transport_listeners,
                      subscription_cache, in.transport, in.authority, out.authority,
                      pool.sender, order, fail_at, unreg_fail)} :
          /\ channels' = pool.channels
          /\ listeners' = ins.listeners
          /\ transport_listeners' = ins.transport_listeners
          /\ listener_sender' = DropDeadListeners(ins.listener_sender, ins.listeners,
                                                  ins.transport_listeners, in_flight)
          /\ calls' = ins.calls
          /\ UNCHANGED subscription_cache
          /\ IF ins.err # ""
             THEN /\ registered_forwarding_rules' =
                         remove_forwarding_rule(table.rules, forwarding_rule).rules
                  /\ forwarders' = TransportForwardersRemove(pool.forwarders, out.transport)
                  /\ last' = Returned(Outcome("add_route", in, out, "INVALID_ARGUMENT",
                                              ins.err, ins.created, pool.sender,
                                              NoMessage),
                                      ins.err_uri)
             ELSE /\ registered_forwarding_rules' = table.rules
                  /\ forwarders' = pool.forwarders
                  /\ last' = Outcome("add_route", in, out, "OK", "",
                                     ins.created, pool.sender, NoMessage)

delete_forwarding_rule(in, out, unreg_fail) ==
    LET forwarding_rule == build_forwarding_rule(in, out)
        table == remove_forwarding_rule(registered_forwarding_rules, forwarding_rule)
    IN
    IF SameAuthority(in, out)
    THEN /\ last' = Outcome("delete_route", in, out, "INVALID_ARGUMENT", "SameAuthority",
                            0, 0, NoMessage)
         /\ calls' = EmptyBag
         /\ UNCHANGED <<subscription_cache, registered_forwarding_rules, forwarders,
                        listeners, listener_sender, channels, transport_listeners>>
    ELSE IF ~table.removed
    THEN /\ last' = Outcome("delete_route", in, out, "NOT_FOUND", "", 0, 0, NoMessage)
         /\ calls' = EmptyBag
         /\ registered_forwarding_rules' = table.rules
         /\ UNCHANGED <<subscription_cache, forwarders, listeners, listener_sender,
                        channels, transport_listeners>>
    ELSE
    \E rem \in {ForwardingListenersRemove(
                   listeners, transport_listeners, subscription_cache,
                   in.transport, in.authority, out.authority, unreg_fail)} :
       /\ registered_forwarding_rules' = table.rules
       /\ forwarders' = TransportForwardersRemove(forwarders, out.transport)
       /\ listeners' = rem.listeners
       /\ transport_listeners' = rem.transport_listeners
       /\ listener_sender' = DropDeadListeners(listener_sender, rem.listeners,
                                               rem.transport_listeners, in_flight)
       /\ calls' = rem.calls
       /\ last' = Outcome("delete_route", in, out, "OK", "", 0, 0, NoMessage)
       /\ UNCHANGED <<subscription_cache, channels>>

\* The transport's answers matter only to a call that reaches them; any
\* other call is given the one trivial choice.
Registers(in, out) ==
    /\ ~SameAuthority(in, out)
    /\ build_forwarding_rule(in, out) \notin registered_forwarding_rules
    /\ ListenerKey(in.transport, in.authority, out.authority) \notin DOMAIN listeners

Unregisters(in, out) ==
    /\ build_forwarding_rule(in, out) \in registered_forwarding_rules
    /\ ListenerKey(in.transport, in.authority, out.authority) \in DOMAIN listeners
    /\ listeners[ListenerKey(in.transport, in.authority, out.authority)].active = 1

AddRoute(in, out) ==
    /\ streamer.constructed
    /\ UNCHANGED <<streamer, usubscription, in_flight>>
    /\ IF Registers(in, out)
       THEN \E order \in Perms(PublishSourceFilters(subscription_cache,
                                                    in.authority, out.authority)) :
            \E fail_at \in 0 .. (Len(order) + 1) :
            \E unreg_fail \in IF fail_at = 0 THEN {{}}
                              ELSE UnregisterFailures(Backpedal(in.authority, out.authority,
                                                                order, fail_at)) :
                add_forwarding_rule(in, out, order, fail_at, unreg_fail)
       ELSE add_forwarding_rule(in, out, <<>>, 0, {})

DeleteRoute(in, out) ==
    /\ streamer.constructed
    /\ UNCHANGED <<streamer, usubscription, in_flight>>
    /\ IF Unregisters(in, out)
       THEN \E unreg_fail \in UnregisterFailures(
                                    {RequestFilterPair(in.authority, out.authority)}
                                        \cup { FilterPair(source_uri, {}) :
                                                 source_uri \in PublishSourceFilters(
                                                     subscription_cache,
                                                     in.authority, out.authority) }) :
                delete_forwarding_rule(in, out, unreg_fail)
       ELSE delete_forwarding_rule(in, out, {})

\* -------------------------------------------------------------- data plane
\* Variant: the newest message is put in front of the unread ones.
BroadcastSend_in_front(ch, msg) ==
    IF Len(ch.queue) >= ChannelCapacity
    THEN [ch EXCEPT !.queue = <<msg>> \o Tail(@), !.lagged = @ + 1]
    ELSE [ch EXCEPT !.queue = <<msg>> \o @]

\* Sender::send on a channel with a receiver: a full ring overwrites its
\* oldest slot, which the receiver later observes as lag.
BroadcastSend(ch, msg) ==
    IF Len(ch.queue) >= ChannelCapacity
    THEN [ch EXCEPT !.queue = Append(Tail(@), msg), !.lagged = @ + 1]
    ELSE [ch EXCEPT !.queue = Append(@, msg)]

\* Variant: a shared-memory message is published like any other.
on_receive_publishes_shm(t, l, msg) ==
    /\ \E r \in transport_listeners[t] : r.listener = l
    /\ calls' = EmptyBag
    /\ UNCHANGED <<subscription_cache, registered_forwarding_rules, forwarders,
                   listeners, listener_sender, transport_listeners,
                   streamer, usubscription, in_flight>>
    /\ LET c == listener_sender[l] IN
       IF channels[c].transport = ""
       THEN /\ last' = Outcome("on_receive", Endpoint("", "", t), NoEndpoint,
                               "send_failed", "", l, c, msg)
            /\ UNCHANGED channels
       ELSE /\ Len(channels[c].queue) < ChannelCapacity \/ channels[c].lagged < MaxLag
            /\ channels' = [channels EXCEPT ![c] = BroadcastSend(@, msg)]
            /\ last' = Outcome("on_receive", Endpoint("", "", t), NoEndpoint,
                               "published", "", l, c, msg)

\* Variant: the publish waits for room in a full queue.
on_receive_waits_for_room(t, l, msg) ==
    /\ \E r \in transport_listeners[t] : r.listener = l
    /\ calls' = EmptyBag
    /\ UNCHANGED <<subscription_cache, registered_forwarding_rules, forwarders,
                   listeners, listener_sender, transport_listeners,
                   streamer, usubscription, in_flight>>
    /\ LET c == listener_sender[l] IN
       IF msg.payload_format = "SHM"
       THEN /\ last' = Outcome("on_receive", Endpoint("", "", t), NoEndpoint,
                               "dropped_shm", "", l, 0, msg)
            /\ UNCHANGED channels
       ELSE IF channels[c].transport = ""
       THEN /\ last' = Outcome("on_receive", Endpoint("", "", t), NoEndpoint,
                               "send_failed", "", l, c, msg)
            /\ UNCHANGED channels
       ELSE /\ Len(channels[c].queue) < ChannelCapacity
            /\ channels' = [channels EXCEPT ![c] = BroadcastSend(@, msg)]
            /\ last' = Outcome("on_receive", Endpoint("", "", t), NoEndpoint,
                               "published", "", l, c, msg)

\* The ingress transport invokes a listener it holds.
on_receive(t, l, msg) ==
    /\ \E r \in transport_listeners[t] : r.listener = l
    /\ calls' = EmptyBag
    /\ UNCHANGED <<subscription_cache, registered_forwarding_rules, forwarders,
                   listeners, listener_sender, transport_listeners,
                   streamer, usubscription, in_flight>>
    /\ LET c == listener_sender[l] IN
       IF msg.payload_format = "SHM"
       THEN /\ last' = Outcome("on_receive", Endpoint("", "", t), NoEndpoint,
                               "dropped_shm", "", l, 0, msg)
            /\ UNCHANGED channels
       ELSE IF channels[c].transport = ""
       THEN /\ last' = Outcome("on_receive", Endpoint("", "", t), NoEndpoint,
                               "send_failed", "", l, c, msg)
            /\ UNCHANGED channels
       ELSE /\ Len(channels[c].queue) < ChannelCapacity \/ channels[c].lagged < MaxLag
            /\ channels' = [channels EXCEPT ![c] = BroadcastSend(@, msg)]
            /\ last' = Outcome("on_receive", Endpoint("", "", t), NoEndpoint,
                               "published", "", l, c, msg)

\* The ingress transport invokes a listener it holds; the callback has
\* started and not yet looked at the message.
on_receive_invoked(t, l, msg) ==
    /\ \E r \in transport_listeners[t] : r.listener = l
    /\ Cardinality(in_flight) < MaxInFlight
    /\ in_flight' = in_flight \cup {Callback(t, l, msg)}
    /\ calls' = EmptyBag
    /\ last' = Outcome("on_receive", Endpoint("", "", t), NoEndpoint,
                       "invoked", "", l, listener_sender[l], msg)
    /\ UNCHANGED <<subscription_cache, registered_forwarding_rules, forwarders,
                   listeners, listener_sender, channels, transport_listeners,
                   streamer, usubscription>>

\* A running callback does its work and returns: the body of on_receive,
\* after which the transport's task lets go of the listener.
on_receive_returns(cb) ==
    /\ cb \in in_flight
    /\ in_flight' = in_flight \ {cb}
    /\ calls' = EmptyBag
    /\ listener_sender' = DropDeadListeners(listener_sender, listeners,
                                            transport_listeners, in_flight \ {cb})
    /\ UNCHANGED <<subscription_cache, registered_forwarding_rules, forwarders,
                   listeners, transport_listeners, streamer, usubscription>>
    /\ LET c == listener_sender[cb.listener] IN
       IF cb.msg.payload_format = "SHM"
       THEN /\ last' = Outcome("on_receive", Endpoint("", "", cb.transport), NoEndpoint,
                               "dropped_shm", "", cb.listener, 0, cb.msg)
            /\ UNCHANGED channels
       ELSE IF channels[c].transport = ""
       THEN /\ last' = Outcome("on_receive", Endpoint("", "", cb.transport), NoEndpoint,
                               "send_failed", "", cb.listener, c, cb.msg)
            /\ UNCHANGED channels
       ELSE /\ Len(channels[c].queue) < ChannelCapacity \/ channels[c].lagged < MaxLag
            /\ channels' = [channels EXCEPT ![c] = BroadcastSend(@, cb.msg)]
            /\ last' = Outcome("on_receive", Endpoint("", "", cb.transport), NoEndpoint,
                               "published", "", cb.listener, c, cb.msg)

\* Variant: the loop stops when a send fails.
route_dispatch_loop_stops_on_send_error(c, send_ok) ==
    /\ channels[c].transport # ""
    /\ calls' = EmptyBag
    /\ UNCHANGED <<subscription_cache, registered_forwarding_rules, forwarders,
                   listeners, listener_sender, transport_listeners,
                   streamer, usubscription, in_flight>>
    /\ LET ch == channels[c]
           out == Endpoint("", "", ch.transport)
       IN IF ch.lagged > 0
          THEN /\ channels' = [channels EXCEPT ![c].lagged = 0]
               /\ last' = Outcome("dispatch", NoEndpoint, out, "lagged", "", 0, c, NoMessage)
          ELSE IF ch.queue # <<>>
          THEN /\ channels' = [channels EXCEPT ![c] =
                                  IF send_ok THEN [@ EXCEPT !.queue = Tail(@)]
                                  ELSE NoChannel]
               /\ last' = Outcome("dispatch", NoEndpoint, out,
                                  IF send_ok THEN "sent" ELSE "send_failed",
                                  "", 0, c, Head(ch.queue))
          ELSE /\ ~SenderAlive(c, forwarders, listener_sender)
               /\ channels' = [channels EXCEPT ![c] = NoChannel]
               /\ last' = Outcome("dispatch", NoEndpoint, out, "closed", "", 0, c, NoMessage)

\* Variant: the loop stops on closed without draining what is still queued.
route_dispatch_loop_stops_undrained(c, send_ok) ==
    /\ channels[c].transport # ""
    /\ calls' = EmptyBag
    /\ UNCHANGED <<subscription_cache, registered_forwarding_rules, forwarders,
                   listeners, listener_sender, transport_listeners,
                   streamer, usubscription, in_flight>>
    /\ LET ch == channels[c]
           out == Endpoint("", "", ch.transport)
       IN IF ~SenderAlive(c, forwarders, listener_sender)
          THEN /\ channels' = [channels EXCEPT ![c] = NoChannel]
               /\ last' = Outcome("dispatch", NoEndpoint, out, "closed", "", 0, c, NoMessage)
          ELSE IF ch.lagged > 0
          THEN /\ channels' = [channels EXCEPT ![c].lagged = 0]
               /\ last' = Outcome("dispatch", NoEndpoint, out, "lagged", "", 0, c, NoMessage)
          ELSE /\ ch.queue # <<>>
               /\ channels' = [channels EXCEPT ![c].queue = Tail(@)]
               /\ last' = Outcome("dispatch", NoEndpoint, out,
                                  IF send_ok THEN "sent" ELSE "send_failed",
                                  "", 0, c, Head(ch.queue))

\* Variant: the loop stops when it is told of lag.
route_dispatch_loop_stops_on_lag(c, send_ok) ==
    /\ channels[c].transport # ""
    /\ calls' = EmptyBag
    /\ UNCHANGED <<subscription_cache, registered_forwarding_rules, forwarders,
                   listeners, listener_sender, transport_listeners,
                   streamer, usubscription, in_flight>>
    /\ LET ch == channels[c]
           out == Endpoint("", "", ch.transport)
       IN IF ch.lagged > 0
          THEN /\ channels' = [channels EXCEPT ![c] = NoChannel]
               /\ last' = Outcome("dispatch", NoEndpoint, out, "lagged", "", 0, c, NoMessage)
          ELSE IF ch.queue # <<>>
          THEN /\ channels' = [channels EXCEPT ![c].queue = Tail(@)]
               /\ last' = Outcome("dispatch", NoEndpoint, out,
                                  IF send_ok THEN "sent" ELSE "send_failed",
                                  "", 0, c, Head(ch.queue))
          ELSE /\ ~SenderAlive(c, forwarders, listener_sender)
               /\ channels' = [channels EXCEPT ![c] = NoChannel]
               /\ last' = Outcome("dispatch", NoEndpoint, out, "closed", "", 0, c, NoMessage)

\* One turn of the worker's loop on channel c: recv, then send or stop.
route_dispatch_loop(c, send_ok) ==
    /\ channels[c].transport # ""
    /\ calls' = EmptyBag
    /\ UNCHANGED <<subscription_cache, registered_forwarding_rules, forwarders,
                   listeners, listener_sender, transport_listeners,
                   streamer, usubscription, in_flight>>
    /\ LET ch == channels[c]
           out == Endpoint("", "", ch.transport)
       IN IF ch.lagged > 0
          THEN /\ channels' = [channels EXCEPT ![c].lagged = 0]
               /\ last' = Outcome("dispatch", NoEndpoint, out, "lagged", "", 0, c, NoMessage)
          ELSE IF ch.queue # <<>>
          THEN /\ channels' = [channels EXCEPT ![c].queue = Tail(@)]
               /\ last' = Outcome("dispatch", NoEndpoint, out,
                                  IF send_ok THEN "sent" ELSE "send_failed",
                                  "", 0, c, Head(ch.queue))
          ELSE /\ ~SenderAlive(c, forwarders, listener_sender)
               /\ channels' = [channels EXCEPT ![c] = NoChannel]
               /\ last' = Outcome("dispatch", NoEndpoint, out, "closed", "", 0, c, NoMessage)

Next ==
    \/ \E answer \in ProviderAnswers : new(MessageQueueSize, answer) /\ UNCHANGED history
    \/ \E in \in Ingresses, out \in Egresses : AddRoute(in, out) /\ UNCHANGED history
    \/ \E in \in Ingresses, out \in Egresses : DeleteRoute(in, out) /\ UNCHANGED history
    \/ \E t \in Transports, l \in Listeners, msg \in Messages : on_receive(t, l, msg) /\ UNCHANGED history
    \/ \E c \in Chans, send_ok \in BOOLEAN : route_dispatch_loop(c, send_ok) /\ UNCHANGED history

Spec == Init /\ [][Next]_vars

\* Each egress worker runs on its own thread: its loop keeps taking turns.
FairSpec == Spec /\ \A c \in Chans : WF_vars(\E send_ok \in BOOLEAN : route_dispatch_loop(c, send_ok) /\ UNCHANGED history)

\* --------------------------------------------------------- route identity
\* Endpoints that differ in name only (in1, in1-again; out3, out3-again) and
\* endpoints that differ in transport instance only (T1, T2; T3, T4).
NamedIngresses ==
    { Endpoint("in1", "a", "T1"), Endpoint("in1-again", "a", "T1"),
      Endpoint("in2", "a", "T2") }
NamedEgresses ==
    { Endpoint("out3", "b", "T3"), Endpoint("out3-again", "b", "T3"),
      Endpoint("out4", "b", "T4") }

\* The two endpoint pairs have equal authorities and the same instances.
SameRoute(in, out, other_in, other_out) ==
    /\ in.authority = other_in.authority
    /\ out.authority = other_out.authority
    /\ in.transport = other_in.transport
    /\ out.transport = other_out.transport

\* add_route, with the endpoints of an accepted route logged as passed.
NamedAddRoute(in, out) ==
    /\ AddRoute(in, out)
    /\ history' = [history EXCEPT !.routes =
                       IF last'.code = "OK" THEN @ \cup {<<in, out>>} ELSE @]

\* delete_route, with the log entry of a removed route dropped.
NamedDeleteRoute(in, out) ==
    /\ DeleteRoute(in, out)
    /\ history' = [history EXCEPT !.routes =
                       IF last'.code = "OK"
                       THEN { p \in @ : ~SameRoute(in, out, p[1], p[2]) } ELSE @]

IdentityNext ==
    \/ \E answer \in ProviderAnswers : new(MessageQueueSize, answer) /\ UNCHANGED history
    \/ \E in \in NamedIngresses, out \in NamedEgresses : NamedAddRoute(in, out)
    \/ \E in \in NamedIngresses, out \in NamedEgresses : NamedDeleteRoute(in, out)

IdentitySpec == Init /\ [][IdentityNext]_vars

\* ---------------------------------------------------- observed data plane
\* One route: an ingress listener feeding the queue of its egress transport.
DataIngresses == { Endpoint("in1", "a", "T1") }
DataEgresses == { Endpoint("out3", "b", "T3") }

PayloadFormats == {"PROTOBUF", "SHM"}

\* The logs of a queue start empty when the pool creates the queue.
LogsOfNewQueues(h, chs, new_chs) ==
    [h EXCEPT !.published = [c \in Chans |->
                                IF chs[c].transport = "" /\ new_chs[c].transport # ""
                                THEN <<>> ELSE @[c]],
              !.sent = [c \in Chans |->
                           IF chs[c].transport = "" /\ new_chs[c].transport # ""
                           THEN <<>> ELSE @[c]],
              !.skipped = [c \in Chans |->
                              IF chs[c].transport = "" /\ new_chs[c].transport # ""
                              THEN 0 ELSE @[c]],
              !.failed = [c \in Chans |->
                             IF chs[c].transport = "" /\ new_chs[c].transport # ""
                             THEN 0 ELSE @[c]]]

ObservedAddRoute(in, out) ==
    /\ AddRoute(in, out)
    /\ history' = LogsOfNewQueues(history, channels, channels')

ObservedDeleteRoute(in, out) ==
    /\ DeleteRoute(in, out)
    /\ UNCHANGED history

\* The ingress transport delivers its next message, numbered as delivered;
\* what the listener publishes is logged per queue.
Deliver(t, l, payload_format) ==
    /\ history.delivered < MaxMessages
    /\ on_receive(t, l, UMessage(history.delivered + 1, payload_format))
    /\ history' = [history EXCEPT
                       !.delivered = @ + 1,
                       !.published = IF last'.code = "published"
                                     THEN [@ EXCEPT ![last'.chan] = Append(@, last'.msg)]
                                     ELSE @]

\* One turn of a worker; what it passes to send, the sends that failed and
\* the lag it is told of are logged per queue.
Dispatch(c, send_ok) ==
    /\ route_dispatch_loop(c, send_ok)
    /\ history' = [history EXCEPT
                       !.sent = IF last'.code \in {"sent", "send_failed"}
                                THEN [@ EXCEPT ![c] = Append(@, last'.msg)] ELSE @,
                       !.skipped = IF last'.code = "lagged"
                                   THEN [@ EXCEPT ![c] = @ + channels[c].lagged] ELSE @,
                       !.failed = IF last'.code = "send_failed"
                                  THEN [@ EXCEPT ![c] = @ + 1] ELSE @]

DataNext ==
    \/ \E q \in 1 .. MaxQueueSize, answer \in ProviderAnswers : new(q, answer) /\ UNCHANGED history
    \/ \E in \in DataIngresses, out \in DataEgresses : ObservedAddRoute(in, out)
    \/ \E in \in DataIngresses, out \in DataEgresses : ObservedDeleteRoute(in, out)
    \/ \E t \in Transports, l \in Listeners, f \in PayloadFormats : Deliver(t, l, f)
    \/ \E c \in Chans, send_ok \in BOOLEAN : Dispatch(c, send_ok)

DataSpec == Init /\ [][DataNext]_vars

\* Each egress worker runs on its own thread: its loop keeps taking turns.
DataFairSpec == DataSpec /\ \A c \in Chans : WF_vars(\E send_ok \in BOOLEAN : Dispatch(c, send_ok))

\* ------------------------------------------------- publish-route resolver
\* Topics of the ingress authority, of another authority and of any
\* authority; entity ids that differ in their high half only.
ResolverTopics ==
    { UUri(authority, ue_id, 1, 32769) :
        authority \in {"a", "z", "*"}, ue_id \in {<<0, 23456>>, <<1, 23456>>} }

ResolverSubscribers == { UUri("b", <<0, 22136>>, 1, 4660), UUri("b", <<0, 22137>>, 1, 4660) }

\* The SubscriptionLookup values the resolver may be handed.
RecordCollections ==
    { c \in SUBSET { Subscription(t, sub) : t \in ResolverTopics, sub \in ResolverSubscribers } :
        Cardinality(c) <= MaxRecords }

ResolverIngressAuthorities == {"a", "c"}

ResolverInit ==
    /\ subscription_cache \in RecordCollections
    /\ registered_forwarding_rules = {}
    /\ forwarders = EmptyMap
    /\ listeners = EmptyMap
    /\ listener_sender = [l \in Listeners |-> 0]
    /\ channels = [c \in Chans |-> NoChannel]
    /\ transport_listeners = [t \in Transports |-> {}]
    /\ calls = EmptyBag
    /\ last = Outcome("init", NoEndpoint, NoEndpoint, "", "", 0, 0, NoMessage)
    /\ streamer = [constructed |-> FALSE, message_queue_size |-> 0]
    /\ usubscription = [fetch_calls |-> 0, subscribers |-> {}]
    /\ in_flight = {}
    /\ history = NoHistory

\* derive_source_filters applied to the records in the order the HashMap
\* yields them.
ResolveFilters(ingress_authority, egress_authority, subscribers) ==
    /\ last' = Returned(Outcome("derive_source_filters",
                                Endpoint("", ingress_authority, ""),
                                Endpoint("", egress_authority, ""),
                                "OK", "", 0, 0, NoMessage),
                        derive_source_filters(ingress_authority, egress_authority,
                                              subscribers))
    /\ UNCHANGED <<subscription_cache, registered_forwarding_rules, forwarders,
                   listeners, listener_sender, channels, transport_listeners, calls,
                   streamer, usubscription, in_flight, history>>

\* derive_source_filter_for_topic applied to the topic of one record.
ResolveTopic(ingress_authority, egress_authority, topic) ==
    /\ last' = Returned(Outcome("derive_source_filter_for_topic",
                                Endpoint("", ingress_authority, ""),
                                Endpoint("", egress_authority, ""),
                                "OK", "", 0, 0, NoMessage),
                        [topic |-> topic,
                         source_filter |->
                             derive_source_filter_for_topic(ingress_authority, topic)])
    /\ UNCHANGED <<subscription_cache, registered_forwarding_rules, forwarders,
                   listeners, listener_sender, channels, transport_listeners, calls,
                   streamer, usubscription, in_flight, history>>

ResolverNext ==
    \/ \E in \in ResolverIngressAuthorities, subscribers \in Perms(subscription_cache) : ResolveFilters(in, "b", subscribers)
    \/ \E in \in ResolverIngressAuthorities, s \in subscription_cache : ResolveTopic(in, "b", s.topic)

ResolverSpec == ResolverInit /\ [][ResolverNext]_vars

\* ------------------------------------------------------- abandoned queues
\* The worker's thread ends while senders of its queue are left: building
\* its runtime failed, or the egress transport's send panicked. The thread
\* owned the only receiver of the queue.
WorkerPanics(c) ==
    /\ channels[c].transport # ""
    /\ SenderAlive(c, forwarders, listener_sender)
    /\ channels' = [channels EXCEPT ![c] = NoChannel]
    /\ calls' = EmptyBag
    /\ last' = Outcome("worker", NoEndpoint, Endpoint("", "", channels[c].transport),
                       "panicked", "", 0, c, NoMessage)
    /\ UNCHANGED <<subscription_cache, registered_forwarding_rules, forwarders,
                   listeners, listener_sender, transport_listeners,
                   streamer, usubscription, in_flight, history>>

AbandonedNext ==
    \/ \E q \in 1 .. MaxQueueSize, answer \in ProviderAnswers : new(q, answer) /\ UNCHANGED history
    \/ \E in \in DataIngresses, out \in DataEgresses : ObservedAddRoute(in, out)
    \/ \E in \in DataIngresses, out \in DataEgresses : ObservedDeleteRoute(in, out)
    \/ \E t \in Transports, l \in Listeners, f \in PayloadFormats : Deliver(t, l, f)
    \/ \E c \in Chans, send_ok \in BOOLEAN : Dispatch(c, send_ok)
    \/ \E c \in Chans : WorkerPanics(c)

AbandonedSpec == Init /\ [][AbandonedNext]_vars

\* ------------------------------------------------- two egress transports
\* Routes from two ingress transports to two egress transports, with the
\* messages the listeners are handed and the turns of the two workers.
IsolationRoutes ==
    { <<Endpoint("in1", "a", "T1"), Endpoint("out3", "b", "T3")>>,
      <<Endpoint("in2", "a", "T2"), Endpoint("out4", "b", "T4")>> }

IsolationAnswers == { FetchSubscriptionsAnswer(TRUE, TRUE, d) : d \in SubscriptionDirectories }

IsolationNext ==
    \/ \E answer \in IsolationAnswers : new(MessageQueueSize, answer) /\ UNCHANGED history
    \/ \E r \in IsolationRoutes : ObservedAddRoute(r[1], r[2])
    \/ \E r \in IsolationRoutes : ObservedDeleteRoute(r[1], r[2])
    \/ \E t \in Transports, l \in Listeners : Deliver(t, l, "PROTOBUF")
    \/ \E c \in Chans, send_ok \in BOOLEAN : Dispatch(c, send_ok)

IsolationSpec == Init /\ [][IsolationNext]_vars

\* ---------------------------------------------------- callbacks in flight
\* The ingress transport starts a callback for its next message.
Invoke(t, l, payload_format) ==
    /\ history.delivered < MaxMessages
    /\ on_receive_invoked(t, l, UMessage(history.delivered + 1, payload_format))
    /\ history' = [history EXCEPT !.delivered = @ + 1]

\* The callback runs to its end; what it publishes is logged per queue.
Return(cb) ==
    /\ on_receive_returns(cb)
    /\ history' = [history EXCEPT
                       !.published = IF last'.code = "published"
                                     THEN [@ EXCEPT ![last'.chan] = Append(@, last'.msg)]
                                     ELSE @]

CallbackNext ==
    \/ \E answer \in ProviderAnswers : new(MessageQueueSize, answer) /\ UNCHANGED history
    \/ \E in \in DataIngresses, out \in DataEgresses : ObservedAddRoute(in, out)
    \/ \E in \in DataIngresses, out \in DataEgresses : ObservedDeleteRoute(in, out)
    \/ \E t \in Transports, l \in Listeners, f \in PayloadFormats : Invoke(t, l, f)
    \/ \E cb \in in_flight : Return(cb)
    \/ \E c \in Chans, send_ok \in BOOLEAN : Dispatch(c, send_ok)

CallbackSpec == Init /\ [][CallbackNext]_vars

\* ------------------------------------------------------ route teardown
\* One ingress and two egress transport instances of one authority, so that
\* routes share the ingress triple and differ in egress transport.
TeardownIngresses == { Endpoint("in1", "a", "T1") }
TeardownEgresses == { Endpoint("out3", "b", "T3"), Endpoint("out4", "b", "T4") }

\* add_route; an accepted route ends the retirement of its egress transport.
TeardownAddRoute(in, out) ==
    /\ AddRoute(in, out)
    /\ history' = [LogsOfNewQueues(history, channels, channels') EXCEPT !.routes =
                       IF last'.code = "OK"
                       THEN { mark \in @ : mark[1] # out.transport } ELSE @]

\* delete_route; when it returns ok and leaves no route on its egress
\* transport, the transport is retired as of the messages delivered so far.
TeardownDeleteRoute(in, out) ==
    /\ DeleteRoute(in, out)
    /\ history' = [history EXCEPT !.routes =
                       IF /\ last'.code = "OK"
                          /\ \A r \in registered_forwarding_rules' : r[4] # out.transport
                       THEN @ \cup {<<out.transport, history.delivered>>} ELSE @]

TeardownNext ==
    \/ \E answer \in ProviderAnswers : new(MessageQueueSize, answer) /\ UNCHANGED history
    \/ \E in \in TeardownIngresses, out \in TeardownEgresses : TeardownAddRoute(in, out)
    \/ \E in \in TeardownIngresses, out \in TeardownEgresses : TeardownDeleteRoute(in, out)
    \/ \E t \in Transports, l \in Listeners, f \in PayloadFormats : Deliver(t, l, f)
    \/ \E c \in Chans, send_ok \in BOOLEAN : Dispatch(c, send_ok)

TeardownSpec == Init /\ [][TeardownNext]_vars

\* ---------------------------------------------------- endpoint authorities
\* Endpoint::new takes any string as authority, the empty one included.
AuthorityIngresses == { Endpoint("in1", authority, "T1") : authority \in {"", "a"} }
AuthorityEgresses == { Endpoint("out3", authority, "T3") : authority \in {"", "b"} }

AuthorityNext ==
    \/ \E answer \in ProviderAnswers : new(MessageQueueSize, answer) /\ UNCHANGED history
    \/ \E in \in AuthorityIngresses, out \in AuthorityEgresses : AddRoute(in, out) /\ UNCHANGED history
    \/ \E in \in AuthorityIngresses, out \in AuthorityEgresses : DeleteRoute(in, out) /\ UNCHANGED history

AuthoritySpec == Init /\ [][AuthorityNext]_vars

\* ------------------------------------------------- add_route step by step
\* add_forwarding_rule taken one await at a time; last holds the call in
\* progress: "reserved" after insert_forwarding_rule, "acquired" after
\* transport_forwarders.insert. The call borrows the streamer mutably, so
\* no other add or delete runs until it has returned.
AddInProgress == last.op = "add_route" /\ last.code \in {"reserved", "acquired"}

\* Variant: forwarding_listeners.insert runs before transport_forwarders.insert.
ListenerInsertIsNext_before_worker == last.op = "add_route" /\ last.code = "reserved"

\* The call in progress has its out_sender and is about to call
\* forwarding_listeners.insert.
ListenerInsertIsNext == last.op = "add_route" /\ last.code = "acquired"

\* Validation and the reservation in the route table.
ValidateAndReserve(in, out) ==
    /\ streamer.constructed
    /\ ~AddInProgress
    /\ calls' = EmptyBag
    /\ UNCHANGED <<subscription_cache, forwarders, listeners, listener_sender, channels,
                   transport_listeners, streamer, usubscription, in_flight>>
    /\ \E table \in {insert_forwarding_rule(registered_forwarding_rules,
                                              build_forwarding_rule(in, out))} :
          IF SameAuthority(in, out)
          THEN /\ last' = Outcome("add_route", in, out, "INVALID_ARGUMENT", "SameAuthority",
                                  0, 0, NoMessage)
               /\ UNCHANGED registered_forwarding_rules
          ELSE IF ~table.inserted
          THEN /\ last' = Outcome("add_route", in, out, "ALREADY_EXISTS", "", 0, 0, NoMessage)
               /\ registered_forwarding_rules' = table.rules
          ELSE /\ RoomFor(in, out)
               /\ last' = Outcome("add_route", in, out, "reserved", "", 0, 0, NoMessage)
               /\ registered_forwarding_rules' = table.rules

\* transport_forwarders.insert of the call in progress.
AcquireWorker ==
    /\ last.op = "add_route"
    /\ last.code = "reserved"
    /\ calls' = EmptyBag
    /\ UNCHANGED <<subscription_cache, registered_forwarding_rules, listeners,
                   listener_sender, transport_listeners, streamer, usubscription,
                   in_flight>>
    /\ \E pool \in {TransportForwardersInsert(forwarders, channels, last.out.transport)} :
          IF pool.panicked
          THEN /\ last' = Outcome("add_route", last.in, last.out, "panic",
                                  "broadcast channel capacity cannot be zero", 0, 0,
                                  NoMessage)
               /\ UNCHANGED <<forwarders, channels>>
          ELSE /\ forwarders' = pool.forwarders
               /\ channels' = pool.channels
               /\ last' = Outcome("add_route", last.in, last.out, "acquired", "", 0,
                                  pool.sender, NoMessage)

\* forwarding_listeners.insert of the call in progress and, when it fails,
\* the undoing of the two steps before it.
AcquireListener(order, fail_at) ==
    /\ ListenerInsertIsNext
    /\ UNCHANGED <<subscription_cache, channels, streamer, usubscription, in_flight>>
    /\ \E ins \in {ForwardingListenersInsert(
                      listeners, listener_sender, transport_listeners,
                      subscription_cache, last.in.transport, last.in.authority,
                      last.out.authority, last.chan, order, fail_at, {})} :
          /\ listeners' = ins.listeners
          /\ transport_listeners' = ins.transport_listeners
          /\ listener_sender' = DropDeadListeners(ins.listener_sender, ins.listeners,
                                                  ins.transport_listeners, in_flight)
          /\ calls' = ins.calls
          /\ IF ins.err # ""
             THEN /\ registered_forwarding_rules' =
                         remove_forwarding_rule(registered_forwarding_rules,
                                                build_forwarding_rule(last.in, last.out)).rules
                  /\ forwarders' = TransportForwardersRemove(forwarders, last.out.transport)
                  /\ last' = Returned(Outcome("add_route", last.in, last.out,
                                              "INVALID_ARGUMENT", ins.err, ins.created,
                                              last.chan, NoMessage),
                                      ins.err_uri)
             ELSE /\ UNCHANGED <<registered_forwarding_rules, forwarders>>
                  /\ last' = Outcome("add_route", last.in, last.out, "OK", "",
                                     ins.created, last.chan, NoMessage)

\* delete_route, between two add_route calls.
SteppedDeleteRoute(in, out) == ~AddInProgress /\ DeleteRoute(in, out)

\* A worker's turn, taken between two calls: it touches its own queue only,
\* so a turn that falls between two steps of an add_route commutes with them.
SteppedDispatch(c) ==
    /\ ~AddInProgress
    /\ route_dispatch_loop(c, TRUE)

SteppedNext ==
    \/ \E answer \in ProviderAnswers : new(MessageQueueSize, answer) /\ UNCHANGED history
    \/ \E in \in Ingresses, out \in Egresses : ValidateAndReserve(in, out) /\ UNCHANGED history
    \/ AcquireWorker /\ UNCHANGED history
    \/ \E order \in Perms(PublishSourceFilters(subscription_cache, last.in.authority, last.out.authority)), fail_at \in 0 .. 3 : AcquireListener(order, fail_at) /\ UNCHANGED history
    \/ \E in \in Ingresses, out \in Egresses : SteppedDeleteRoute(in, out) /\ UNCHANGED history
    \/ \E c \in Chans : SteppedDispatch(c) /\ UNCHANGED history

SteppedSpec == Init /\ [][SteppedNext]_vars

\* ------------------------------------------------ faulty ingress transport
\* The unregister calls a faulty transport may fail in one operation.
FailingUnregisters(pairs) ==
    { f \in SUBSET pairs :
        Cardinality(f) + Cardinality(StaleRegistrations) <= MaxUnregisterFailures }

\* add_route on a transport that may fail register and unregister calls.
FaultyAddRoute(in, out) ==
    /\ streamer.constructed
    /\ UNCHANGED <<streamer, usubscription, in_flight>>
    /\ IF Registers(in, out)
       THEN \E order \in Perms(PublishSourceFilters(subscription_cache,
                                                    in.authority, out.authority)) :
            \E fail_at \in 0 .. (Len(order) + 1) :
            \E unreg_fail \in IF fail_at = 0 THEN {{}}
                              ELSE FailingUnregisters(Backpedal(in.authority, out.authority,
                                                                order, fail_at)) :
                add_forwarding_rule(in, out, order, fail_at, unreg_fail)
       ELSE add_forwarding_rule(in, out, <<>>, 0, {})

\* delete_route on a transport that may fail unregister calls.
FaultyDeleteRoute(in, out) ==
    /\ streamer.constructed
    /\ UNCHANGED <<streamer, usubscription, in_flight>>
    /\ IF Unregisters(in, out)
       THEN \E unreg_fail \in FailingUnregisters(
                                    {RequestFilterPair(in.authority, out.authority)}
                                        \cup { FilterPair(source_uri, {}) :
                                                 source_uri \in PublishSourceFilters(
                                                     subscription_cache,
                                                     in.authority, out.authority) }) :
                delete_forwarding_rule(in, out, unreg_fail)
       ELSE delete_forwarding_rule(in, out, {})

FaultyNext ==
    \/ \E answer \in ProviderAnswers : new(MessageQueueSize, answer) /\ UNCHANGED history
    \/ \E in \in TeardownIngresses, out \in TeardownEgresses : FaultyAddRoute(in, out) /\ UNCHANGED history
    \/ \E in \in TeardownIngresses, out \in TeardownEgresses : FaultyDeleteRoute(in, out) /\ UNCHANGED history

FaultySpec == Init /\ [][FaultyNext]_vars

\* ------------------------------------------------------------ round trips
\* add_route and delete_route on a transport that may fail calls, with a
\* record of the last accepted add_route: the tables and the transport's
\* registrations as they were before it, the pairs it registered, whether it
\* has been deleted again and by a delete whose unregister calls were all
\* answered, and whether it came right after such a round trip of its route.
NoTrip == {}

FilterPairsOf(records) == { [source |-> c.source, sink |-> c.sink] : c \in records }

TripOf(h) == CHOOSE trip \in h.routes : TRUE

TripAdded(in, out) ==
    [in |-> in, out |-> out, stage |-> "added",
     rules |-> registered_forwarding_rules,
     forwarders |-> forwarders,
     listeners |-> listeners,
     transport_listeners |-> transport_listeners,
     registered |-> FilterPairsOf({ c \in BagToSet(calls') : c.call = "register" /\ c.ok }),
     refused |-> {},
     again |-> /\ history.routes # NoTrip
               /\ TripOf(history).stage = "deleted"
               /\ TripOf(history).in = in
               /\ TripOf(history).out = out
               /\ TripOf(history).refused = {}]

RoundTripAddRoute(in, out) ==
    /\ FaultyAddRoute(in, out)
    /\ history' = [history EXCEPT !.routes =
                       IF last'.code = "OK" THEN {TripAdded(in, out)} ELSE NoTrip]

RoundTripDeleteRoute(in, out) ==
    /\ FaultyDeleteRoute(in, out)
    /\ history' = [history EXCEPT !.routes =
                       IF /\ last'.code = "OK"
                          /\ history.routes # NoTrip
                          /\ TripOf(history).stage = "added"
                          /\ TripOf(history).in = in
                          /\ TripOf(history).out = out
                       THEN {[TripOf(history) EXCEPT
                                 !.stage = "deleted",
                                 !.refused = FilterPairsOf({ c \in BagToSet(calls') :
                                                        c.call = "unregister" /\ ~c.ok })]}
                       ELSE NoTrip]

RoundTripNext ==
    \/ \E answer \in ProviderAnswers : new(MessageQueueSize, answer) /\ UNCHANGED history
    \/ \E in \in TeardownIngresses, out \in TeardownEgresses : RoundTripAddRoute(in, out)
    \/ \E in \in TeardownIngresses, out \in TeardownEgresses : RoundTripDeleteRoute(in, out)

RoundTripSpec == Init /\ [][RoundTripNext]_vars

\* -------------------------------------------------------- queue capacity
\* message_queue_size is a u16: its least value, the value used elsewhere
\* and its greatest value.
QueueSizes == {0, MessageQueueSize, 65535}

CapacityNext ==
    \/ \E q \in QueueSizes, answer \in ProviderAnswers : new(q, answer) /\ UNCHANGED history
    \/ \E in \in TeardownIngresses, out \in TeardownEgresses : AddRoute(in, out) /\ UNCHANGED history
    \/ \E in \in TeardownIngresses, out \in TeardownEgresses : DeleteRoute(in, out) /\ UNCHANGED history

CapacitySpec == Init /\ [][CapacityNext]_vars

\* ------------------------------------------------- sparse directories
\* Directories without a subscriber of egress authority b: an empty one and
\* one whose only subscriber is of authority c.
SparseDirectories ==
    { {},
      { Subscription(UUri("a", <<0, 23457>>, 1, 32769), UUri("c", <<0, 22136>>, 1, 4660)) } }

SparseNext ==
    \/ \E d \in SparseDirectories : new(MessageQueueSize, FetchSubscriptionsAnswer(TRUE, TRUE, d)) /\ UNCHANGED history
    \/ \E in \in Ingresses, out \in Egresses : AddRoute(in, out) /\ UNCHANGED history
    \/ \E in \in Ingresses, out \in Egresses : DeleteRoute(in, out) /\ UNCHANGED history

SparseSpec == Init /\ [][SparseNext]_vars

\* ------------------------------------------------------- claim vocabulary
PoolRefcount(fw, t) == IF t \in DOMAIN fw THEN fw[t].active ELSE 0

RegistryRefcount(ls, k) == IF k \in DOMAIN ls THEN ls[k].active ELSE 0

RegistryKeys == Transports \X {"a", "b"} \X {"a", "b"}

PoolRefcountsUnchanged ==
    \A t \in Transports : PoolRefcount(forwarders', t) = PoolRefcount(forwarders, t)

RegistryRefcountsUnchanged ==
    \A k \in RegistryKeys : RegistryRefcount(listeners', k) = RegistryRefcount(listeners, k)

CallsMade(bag, kind) == { c \in BagToSet(bag) : c.call = kind }

RouteOf(o) == build_forwarding_rule(o.in, o.out)

KeyOf(o) == ListenerKey(o.in.transport, o.in.authority, o.out.authority)

RegisterErrors ==
    {"FailToRegisterNotificationRequestResponseListener", "FailToRegisterPublishListener"}

\* The step is add_route(in, out) refused because a registration failed.
AddRouteRegisterFailure == last'.op = "add_route" /\ last'.err \in RegisterErrors

\* C1: when a register_listener call fails during add_route, after the error
\* is returned the route is not in the route table, the pool refcount of the
\* egress transport is what it was before the call (absent stays absent), and
\* every register call that succeeded is matched by an unregister call with
\* the same source, sink and listener.
C1_RegisterFailureRollsBack ==
    [][AddRouteRegisterFailure =>
          /\ last'.code = "INVALID_ARGUMENT"
          /\ RouteOf(last') \notin registered_forwarding_rules'
          /\ PoolRefcount(forwarders', last'.out.transport)
                 = PoolRefcount(forwarders, last'.out.transport)
          /\ (last'.out.transport \in DOMAIN forwarders')
                 = (last'.out.transport \in DOMAIN forwarders)
          /\ \A c \in CallsMade(calls', "register") :
                 c.ok => \E u \in CallsMade(calls', "unregister") :
                            /\ u.transport = c.transport
                            /\ u.source = c.source
                            /\ u.sink = c.sink
                            /\ u.listener = c.listener]_vars

\* A publish registration failed after another registration had succeeded,
\* on an egress transport other routes already use.
C1_Witness ==
    /\ last.op = "add_route"
    /\ last.err = "FailToRegisterPublishListener"
    /\ \E c \in CallsMade(calls, "register") : c.ok
    /\ PoolRefcount(forwarders, last.out.transport) >= 1

\* C2: add_route(a, b) with a.authority = b.authority fails with
\* InvalidArgument in every state, and the route table, every pool refcount
\* and every registry refcount stay as they were, with no register or
\* unregister call made.
C2_SameAuthorityRejected ==
    [][(last'.op = "add_route" /\ last'.in.authority = last'.out.authority) =>
          /\ last'.code = "INVALID_ARGUMENT"
          /\ UNCHANGED <<registered_forwarding_rules, forwarders, listeners,
                         transport_listeners>>
          /\ PoolRefcountsUnchanged
          /\ RegistryRefcountsUnchanged
          /\ calls' = EmptyBag]_vars

\* A same-authority add_route was refused while routes were installed.
C2_Witness ==
    /\ last.op = "add_route"
    /\ last.in.authority = last.out.authority
    /\ last.code = "INVALID_ARGUMENT"
    /\ registered_forwarding_rules # {}

\* C3: add_route of a route that is installed fails with AlreadyExists,
\* leaves the pool refcounts and the registry refcounts unchanged, and makes
\* no register_listener call.
C3_DuplicateAddRejected ==
    [][(/\ last'.op = "add_route"
        /\ last'.in.authority # last'.out.authority
        /\ RouteOf(last') \in registered_forwarding_rules) =>
          /\ last'.code = "ALREADY_EXISTS"
          /\ PoolRefcountsUnchanged
          /\ RegistryRefcountsUnchanged
          /\ CallsMade(calls', "register") = {}
          /\ UNCHANGED <<registered_forwarding_rules, transport_listeners>>]_vars

\* The second add_route of an installed route was refused.
C3_Witness ==
    /\ last.op = "add_route"
    /\ last.code = "ALREADY_EXISTS"
    /\ RouteOf(last) \in registered_forwarding_rules
    /\ PoolRefcount(forwarders, last.out.transport) >= 1

\* C4: delete_route of a route (distinct authorities) that is not in the
\* route table fails with NotFound, changes no pool refcount and no registry
\* refcount, and makes no unregister_listener call.
C4_DeleteAbsentNotFound ==
    [][(/\ last'.op = "delete_route"
        /\ last'.in.authority # last'.out.authority
        /\ RouteOf(last') \notin registered_forwarding_rules) =>
          /\ last'.code = "NOT_FOUND"
          /\ PoolRefcountsUnchanged
          /\ RegistryRefcountsUnchanged
          /\ CallsMade(calls', "unregister") = {}
          /\ UNCHANGED <<registered_forwarding_rules, transport_listeners>>]_vars

\* delete_route of an absent route was refused while another route shares
\* its egress transport and its ingress triple.
C4_Witness ==
    /\ last.op = "delete_route"
    /\ last.code = "NOT_FOUND"
    /\ PoolRefcount(forwarders, last.out.transport) >= 1
    /\ RegistryRefcount(listeners, KeyOf(last)) >= 1

\* C5: every non-shared-memory message the ingress transport delivers to the
\* listener of an installed route is published into the queue of that
\* route's own egress transport, also when installed routes share the
\* ingress transport, ingress authority and egress authority but differ in
\* egress transport.
C5_PublishedIntoOwnEgressQueue ==
    (last.op = "on_receive" /\ last.msg.payload_format # "SHM") =>
        \A r \in registered_forwarding_rules :
            (/\ r[3] = last.in.transport
             /\ ListenerKey(r[3], r[1], r[2]) \in DOMAIN listeners
             /\ listeners[ListenerKey(r[3], r[1], r[2])].listener = last.listener) =>
                /\ last.code = "published"
                /\ r[4] \in DOMAIN forwarders
                /\ last.chan = forwarders[r[4]].chan

\* C6: the pool holds one entry, with one queue and one worker, per egress
\* transport; its refcount is the number of installed routes using that
\* transport; every insert for the transport returns a sender of that one
\* queue, and an insert on an existing entry creates no queue and no worker.
C6_PoolEntryState ==
    /\ \A t \in DOMAIN forwarders :
          /\ forwarders[t].active
                 = Cardinality({ r \in registered_forwarding_rules : r[4] = t })
          /\ channels[forwarders[t].chan].transport = t
          /\ \A u \in DOMAIN forwarders :
                 forwarders[u].chan = forwarders[t].chan => u = t
    /\ (last.op = "add_route" /\ last.code = "OK") =>
          /\ last.out.transport \in DOMAIN forwarders
          /\ last.chan = forwarders[last.out.transport].chan

C6_OneEntryPerEgressTransport ==
    /\ []C6_PoolEntryState
    /\ [][(/\ last'.op = "add_route"
           /\ last'.code = "OK"
           /\ last'.out.transport \in DOMAIN forwarders) =>
             /\ forwarders'[last'.out.transport].chan
                    = forwarders[last'.out.transport].chan
             /\ forwarders'[last'.out.transport].active
                    = forwarders[last'.out.transport].active + 1
             /\ DOMAIN forwarders' = DOMAIN forwarders
             /\ channels' = channels]_vars

\* Two routes installed on one egress transport.
C6_Witness ==
    /\ last.op = "add_route"
    /\ last.code = "OK"
    /\ PoolRefcount(forwarders, last.out.transport) = 2

\* The filter pairs an ingress triple has registered: the request/response
\* pair of wildcard URIs and one source-only pair per topic of the ingress
\* authority (or of any authority) among the egress authority's subscribers.
WildcardUri(authority) ==
    [authority_name |-> authority, ue_id |-> <<65535, 65535>>,
     ue_version_major |-> 255, resource_id |-> 65535]

ExpectedFilterPairs(in_authority, out_authority) ==
    { [source |-> WildcardUri(in_authority), sink |-> {WildcardUri(out_authority)}] }
        \cup { [source |-> [authority_name |-> in_authority,
                            ue_id |-> s.topic.ue_id,
                            ue_version_major |-> s.topic.ue_version_major,
                            resource_id |-> s.topic.resource_id],
                sink |-> {}] :
                 s \in { x \in lookup_route_subscribers(subscription_cache, out_authority) :
                           x.topic.authority_name \in {in_authority, "*"} } }

PairsOf(records) == { [source |-> c.source, sink |-> c.sink] : c \in records }

\* C7: routes sharing (ingress transport, ingress authority, egress
\* authority) are registered once: the entry's listener holds one
\* registration per filter pair, all made by the insert that created the
\* entry; a further insert only increments the refcount and makes no
\* register_listener call.
C7_RegistrationsHeldOnce ==
    \A k \in DOMAIN listeners :
        /\ listeners[k].active
               = Cardinality({ r \in registered_forwarding_rules :
                                 ListenerKey(r[3], r[1], r[2]) = k })
        /\ PairsOf({ r \in transport_listeners[k[1]] :
                       r.listener = listeners[k].listener })
               = ExpectedFilterPairs(k[2], k[3])
        /\ \A t \in Transports \ {k[1]} :
               \A r \in transport_listeners[t] : r.listener # listeners[k].listener

C7_SharedTripleRegistersOnce ==
    /\ []C7_RegistrationsHeldOnce
    /\ [][(/\ last'.op = "add_route"
           /\ last'.code = "OK"
           /\ KeyOf(last') \in DOMAIN listeners) =>
             /\ calls' = EmptyBag
             /\ transport_listeners' = transport_listeners
             /\ listeners'[KeyOf(last')].listener = listeners[KeyOf(last')].listener
             /\ listeners'[KeyOf(last')].active = listeners[KeyOf(last')].active + 1]_vars

\* A second route was installed on an ingress triple that already had one.
C7_Witness ==
    /\ last.op = "add_route"
    /\ last.code = "OK"
    /\ RegistryRefcount(listeners, KeyOf(last)) = 2
    /\ calls = EmptyBag

\* Two installed routes share egress transport t, whose queue is c.
SharedByTwo(t, c) ==
    /\ t \in DOMAIN forwarders
    /\ forwarders[t].chan = c
    /\ forwarders[t].active = 2

\* delete_route of one of them has returned: the entry is still there.
OneDeleted(t, c) ==
    /\ last.op = "delete_route" /\ last.code = "OK" /\ last.out.transport = t
    /\ t \in DOMAIN forwarders
    /\ forwarders[t].chan = c
    /\ forwarders[t].active = 1

\* delete_route of the other has returned: the entry is gone.
BothDeleted(t, c) ==
    /\ last.op = "delete_route" /\ last.code = "OK" /\ last.out.transport = t
    /\ t \notin DOMAIN forwarders
    /\ channels[c].transport = t

\* C8: with two installed routes sharing egress transport t, delete_route of
\* one leaves t's pool entry present and its worker running; delete_route of
\* the other removes the entry, and t's worker then eventually terminates.
C8_WorkerStopsAfterLastDelete ==
    \A t \in Transports : \A c \in Chans :
        [](SharedByTwo(t, c) =>
             [](OneDeleted(t, c) =>
                  /\ channels[c].transport = t
                  /\ [](BothDeleted(t, c) => <>(channels[c].transport # t))))

\* The registrations the ingress transport holds for the triple's listener.
HeldFor(key) ==
    { r \in transport_listeners[key[1]] : r.listener = listeners[key].listener }

\* C9: the delete_route that removes the last route of an ingress triple
\* calls unregister_listener once for each filter pair registered for the
\* triple, with the listener they were registered with, and for no other
\* pair; a delete_route that leaves the refcount above zero calls none.
C9_LastDeleteUnregistersWhatWasRegistered ==
    [][(last'.op = "delete_route" /\ last'.code = "OK") =>
          IF listeners[KeyOf(last')].active = 1
          THEN /\ KeyOf(last') \notin DOMAIN listeners'
               /\ BagToSet(calls') = CallsMade(calls', "unregister")
               /\ \A c \in BagToSet(calls') :
                     /\ CopiesIn(c, calls') = 1
                     /\ c.transport = last'.in.transport
                     /\ c.listener = listeners[KeyOf(last')].listener
               /\ PairsOf(BagToSet(calls')) = PairsOf(HeldFor(KeyOf(last')))
               /\ Cardinality(BagToSet(calls')) = Cardinality(HeldFor(KeyOf(last')))
               /\ PairsOf(HeldFor(KeyOf(last')))
                      = ExpectedFilterPairs(last'.in.authority, last'.out.authority)
          ELSE /\ calls' = EmptyBag
               /\ transport_listeners' = transport_listeners
               /\ listeners'[KeyOf(last')].active = listeners[KeyOf(last')].active - 1]_vars

\* The last route of a triple with publish filters was deleted, and its
\* registrations were taken off the transport.
C9_Witness ==
    /\ last.op = "delete_route"
    /\ last.code = "OK"
    /\ Cardinality(CallsMade(calls, "unregister")) = 3
    /\ transport_listeners[last.in.transport] = {}

\* C10: a successful add_route that creates a registry entry makes exactly
\* one register_listener call per expected filter pair on the ingress
\* transport, all with the one new listener: the pair of wildcard URIs
\* (ue_id 0xFFFFFFFF, version 0xFF, resource 0xFFFF) of the ingress and the
\* egress authority, and (f, none) for each publish source filter f; it
\* makes no other call.
C10_CreatingAddRegistersExactly ==
    [][(/\ last'.op = "add_route"
        /\ last'.code = "OK"
        /\ KeyOf(last') \notin DOMAIN listeners) =>
          /\ KeyOf(last') \in DOMAIN listeners'
          /\ BagToSet(calls') = CallsMade(calls', "register")
          /\ \A c \in BagToSet(calls') :
                /\ CopiesIn(c, calls') = 1
                /\ c.ok
                /\ c.transport = last'.in.transport
                /\ c.listener = listeners'[KeyOf(last')].listener
          /\ PairsOf(BagToSet(calls'))
                 = ExpectedFilterPairs(last'.in.authority, last'.out.authority)
          /\ Cardinality(BagToSet(calls'))
                 = Cardinality(ExpectedFilterPairs(last'.in.authority,
                                                   last'.out.authority))]_vars

\* A new triple was registered with the request/response pair and two
\* publish filters, one of them from a wildcard-authority topic.
C10_Witness ==
    /\ last.op = "add_route"
    /\ last.code = "OK"
    /\ last.listener # 0
    /\ Cardinality(CallsMade(calls, "register")) = 3
    /\ \E c \in CallsMade(calls, "register") :
          c.sink = {} /\ c.source.resource_id = 32770

\* The logged routes the endpoint pair of the last call denotes.
LoggedAs(log, o) == { p \in log : SameRoute(o.in, o.out, p[1], p[2]) }

\* C11: a route is identified by (ingress authority, egress authority,
\* ingress transport instance, egress transport instance). add_route of an
\* endpoint pair fails AlreadyExists exactly when an installed route has
\* equal authorities and the same two instances, whatever the endpoint
\* names, so a pair differing in a transport instance is installed as a
\* further route; delete_route fails NotFound exactly when no installed
\* route has equal authorities and the same two instances.
C11_RouteIdentityByInstance ==
    [][/\ (last'.op = "add_route" /\ last'.in.authority # last'.out.authority) =>
             ((last'.code = "ALREADY_EXISTS") <=> (LoggedAs(history.routes, last') # {}))
       /\ (last'.op = "delete_route" /\ last'.in.authority # last'.out.authority) =>
             /\ (last'.code = "NOT_FOUND") <=> (LoggedAs(history.routes, last') = {})
             /\ (last'.code = "OK") <=> (LoggedAs(history.routes, last') # {})]_vars

\* Two routes with equal authorities and different ingress instances of one
\* configuration are installed, and add_route of one of them under other
\* endpoint names was refused.
C11_Witness ==
    /\ last.op = "add_route"
    /\ last.code = "ALREADY_EXISTS"
    /\ \E p \in LoggedAs(history.routes, last) :
          p[1].name # last.in.name /\ p[2].name # last.out.name
    /\ \E p \in history.routes :
          /\ p[1].authority = last.in.authority
          /\ p[2].authority = last.out.authority
          /\ p[1].transport # last.in.transport
          /\ Config(p[1].transport) = Config(last.in.transport)

RECURSIVE IsSubsequence(_, _)
IsSubsequence(s, t) ==
    IF s = <<>> THEN TRUE
    ELSE IF t = <<>> THEN FALSE
    ELSE IF Head(s) = Head(t) THEN IsSubsequence(Tail(s), Tail(t))
    ELSE IsSubsequence(s, Tail(t))

\* The worker of queue c has not been told of lag and has none pending.
NeverLagged(c) == history.skipped[c] = 0 /\ channels[c].lagged = 0

\* C12: for each queue, the sequence of messages its worker passed to send
\* is a subsequence, in the same order, of the sequence published into the
\* queue; while the worker has not lagged it is the published sequence up to
\* the messages still queued; messages are dropped under lag but never
\* reordered or duplicated.
C12_SentIsOrderedSubsequence ==
    \A c \in Chans :
        /\ IsSubsequence(history.sent[c], history.published[c])
        /\ \A i, j \in 1 .. Len(history.sent[c]) :
               i # j => history.sent[c][i] # history.sent[c][j]
        /\ NeverLagged(c) =>
               history.sent[c] \o channels[c].queue = history.published[c]

\* Three messages were published into one queue, the oldest was overrun and
\* the two others were passed to send in their order.
C12_Witness ==
    \E c \in Chans :
        /\ Len(history.published[c]) = 3
        /\ history.skipped[c] = 1
        /\ history.sent[c] = Tail(history.published[c])

\* The last n elements of a sequence of at least n elements.
LastOf(s, n) == SubSeq(s, Len(s) - n + 1, Len(s))

\* Queue c of capacity K was sent K+M messages (M >= 1) before its worker
\* received any, and every sender of the queue has been dropped.
OverrunAndClosed(c) ==
    /\ channels[c].transport # ""
    /\ channels[c].lagged >= 1
    /\ Len(channels[c].queue) = ChannelCapacity
    /\ Len(history.published[c]) = ChannelCapacity + channels[c].lagged
    /\ history.sent[c] = <<>>
    /\ history.skipped[c] = 0
    /\ ~SenderAlive(c, forwarders, listener_sender)

\* The worker of queue c was told of lag, passed the K newest messages to
\* send, each once and in order, and stopped.
LaggedSentAndStopped(c) ==
    /\ channels[c].transport = ""
    /\ history.skipped[c] >= 1
    /\ Len(history.sent[c]) >= 1
    /\ history.sent[c] = LastOf(history.published[c], ChannelCapacity)

\* C13: when a queue of capacity K was sent K+M messages (M >= 1) before its
\* worker received any and every sender was then dropped, the dispatch loop
\* is told of lag, continues, passes at least one message to send, none of
\* the M overrun (oldest) messages and none twice, and terminates on closed.
C13_LagThenDrainThenStop ==
    \A c \in Chans : OverrunAndClosed(c) ~> LaggedSentAndStopped(c)

\* The worker's first receive, after every sender was dropped, reported the
\* oldest of three messages as overrun, and the loop goes on.
C13_Witness ==
    \E c \in Chans :
        /\ last.op = "dispatch" /\ last.code = "lagged" /\ last.chan = c
        /\ ~SenderAlive(c, forwarders, listener_sender)
        /\ channels[c].transport # ""
        /\ history.sent[c] = <<>>
        /\ history.skipped[c] = 1
        /\ Len(history.published[c]) = 3
        /\ Len(channels[c].queue) = 2

\* Every sender of the running worker's queue c has been dropped.
SendersDropped(c) ==
    channels[c].transport # "" /\ ~SenderAlive(c, forwarders, listener_sender)

\* The worker of queue c has stopped, and every message published into the
\* queue was either passed to send or counted as overrun.
StoppedDrained(c) ==
    /\ channels[c].transport = ""
    /\ last.op = "dispatch" /\ last.code = "closed" /\ last.chan = c
    /\ Len(history.sent[c]) + history.skipped[c] = Len(history.published[c])
    /\ IsSubsequence(history.sent[c], history.published[c])

\* C14: once every sender of a worker's queue is dropped the dispatch loop
\* terminates; by then it passed to send, once each, every message published
\* before the close and not overrun (none if the queue was empty); it stops
\* only on closed with nothing left queued, and a stopped worker sends
\* nothing.
C14_ClosedDrainsThenStops ==
    /\ \A c \in Chans : SendersDropped(c) ~> StoppedDrained(c)
    /\ [][\A c \in Chans :
             /\ (channels[c].transport # "" /\ channels'[c].transport = "") =>
                    /\ SendersDropped(c)
                    /\ channels[c].queue = <<>>
                    /\ channels[c].lagged = 0
                    /\ last'.code = "closed"
                    /\ history'.sent[c] = history.sent[c]
             /\ (channels[c].transport = "" /\ channels'[c].transport = "") =>
                    history'.sent[c] = history.sent[c]]_vars

\* A worker stopped on closed with both messages published into its queue
\* passed to send and none overrun.
C14_Witness ==
    \E c \in Chans :
        /\ StoppedDrained(c)
        /\ Len(history.sent[c]) = 2
        /\ history.skipped[c] = 0
        /\ last.msg = NoMessage

\* The messages the ingress transports deliver into queues while observed.
QueuedMessages == { UMessage(i, "PROTOBUF") : i \in 1 .. MaxMessages }

InSeq(x, s) == \E i \in 1 .. Len(s) : s[i] = x

\* A send on queue c's transport has just failed while m is queued behind.
FailedWithQueued(c, m) ==
    /\ last.op = "dispatch" /\ last.code = "send_failed" /\ last.chan = c
    /\ InSeq(m, channels[c].queue)

\* m was passed to send, or the producers overran it before its turn.
SentOrOverrun(c, m) ==
    \/ InSeq(m, history.sent[c])
    \/ /\ InSeq(m, history.published[c])
       /\ ~InSeq(m, channels[c].queue)
       /\ channels[c].lagged + history.skipped[c] >= 1

\* C15: a failed out_transport.send never stops the worker: after the step
\* the loop is running, the failed message is gone from the queue and is
\* never passed to send again, the messages behind it are still queued, and
\* each of them is passed to send in its turn.
C15_SendFailureSkipsAndContinues ==
    /\ [][\A c \in Chans :
             (last'.op = "dispatch" /\ last'.code = "send_failed" /\ last'.chan = c) =>
                /\ channels'[c].transport = channels[c].transport
                /\ channels'[c].transport # ""
                /\ last'.msg = Head(channels[c].queue)
                /\ channels'[c].queue = Tail(channels[c].queue)
                /\ ~InSeq(last'.msg, channels'[c].queue)
                /\ ~InSeq(last'.msg, history.sent[c])]_vars
    /\ \A c \in Chans : \A m \in QueuedMessages :
           FailedWithQueued(c, m) ~> SentOrOverrun(c, m)

\* After two failed sends the worker passed a third message to send.
C15_Witness ==
    \E c \in Chans :
        /\ last.op = "dispatch" /\ last.code = "sent" /\ last.chan = c
        /\ history.failed[c] = 2
        /\ Len(history.sent[c]) = 3

\* C16: a message whose payload format is shared-memory-pointer is never
\* published into a queue, so none is ever queued or passed to send; a
\* message of any other payload format that arrives at a listener is
\* published into the queue the listener holds the sender of, and into no
\* other.
C16_ShmDroppedOthersPublished ==
    /\ [](\A c \in Chans : \A i \in 1 .. Len(channels[c].queue) :
              channels[c].queue[i].payload_format # "SHM")
    /\ []((last.op = "dispatch" /\ last.code \in {"sent", "send_failed"}) =>
              last.msg.payload_format # "SHM")
    /\ [][last'.op = "on_receive" =>
             IF last'.msg.payload_format = "SHM"
             THEN /\ last'.code = "dropped_shm"
                  /\ channels' = channels
             ELSE /\ last'.code = "published"
                  /\ last'.chan = listener_sender[last'.listener]
                  /\ channels'[last'.chan].queue # <<>>
                  /\ channels'[last'.chan].queue[Len(channels'[last'.chan].queue)]
                         = last'.msg
                  /\ \A c \in Chans \ {last'.chan} : channels'[c] = channels[c]]_vars

\* A shared-memory message arrived at a listener whose queue had room and
\* whose worker was running, and was dropped.
C16_Witness ==
    /\ last.op = "on_receive"
    /\ last.msg.payload_format = "SHM"
    /\ last.code = "dropped_shm"
    /\ channels[listener_sender[last.listener]].transport # ""
    /\ channels[listener_sender[last.listener]].queue = <<>>

\* The records whose topic authority is the ingress authority or "*".
MatchingRecords(records, ingress_authority) ==
    { s \in records : s.topic.authority_name \in {ingress_authority, "*"} }

\* The URI (authority A, ue_id, version, resource_id of the topic).
FilterOf(ingress_authority, topic) ==
    [authority_name |-> ingress_authority, ue_id |-> topic.ue_id,
     ue_version_major |-> topic.ue_version_major, resource_id |-> topic.resource_id]

C19_FetchedOnceAtConstruction ==
    /\ [](streamer.constructed => usubscription.fetch_calls = 1)
    /\ [][usubscription'.fetch_calls # usubscription.fetch_calls =>
             /\ last'.op = "new"
             /\ usubscription.fetch_calls = 0
             /\ usubscription'.fetch_calls = 1]_vars
    /\ [][last'.op \in {"add_route", "delete_route"} =>
             /\ usubscription' = usubscription
             /\ subscription_cache' = subscription_cache]_vars
    /\ [][streamer.constructed => subscription_cache' = subscription_cache]_vars

\* After routes were added, the last route of a triple was deleted and its
\* filters derived again, with the provider still asked once.
C19_Witness ==
    /\ streamer.constructed
    /\ usubscription.fetch_calls = 1
    /\ last.op = "delete_route"
    /\ last.code = "OK"
    /\ Cardinality(CallsMade(calls, "unregister")) = 3
    /\ registered_forwarding_rules # {}

\* C20: when the subscription bootstrap fails, because the provider's
\* fetch_subscriptions returns an error or because the cache cannot be
\* built from the response, UStreamer::new returns InvalidArgument to its
\* caller and no streamer is constructed.
C20_BootstrapFailureIsInvalidArgument ==
    /\ (last.op = "new" /\ last.code # "OK") =>
          /\ last.code = "INVALID_ARGUMENT"
          /\ ~streamer.constructed
    /\ (last.op = "new" /\ last.code = "OK") => streamer.constructed

\* C21: delete_route(a, b) with a.authority = b.authority fails with
\* InvalidArgument, not NotFound, in every state, and leaves the route
\* table, the egress pool, its queues and the ingress registry as they
\* were, with no unregister call made.
C21_DeleteSameAuthorityRejected ==
    [][(last'.op = "delete_route" /\ last'.in.authority = last'.out.authority) =>
          /\ last'.code = "INVALID_ARGUMENT"
          /\ last'.code # "NOT_FOUND"
          /\ UNCHANGED <<registered_forwarding_rules, forwarders, channels, listeners,
                         listener_sender, transport_listeners>>
          /\ calls' = EmptyBag]_vars

\* A same-authority delete_route was refused while routes were installed on
\* its egress transport.
C21_Witness ==
    /\ last.op = "delete_route"
    /\ last.in.authority = last.out.authority
    /\ last.code = "INVALID_ARGUMENT"
    /\ PoolRefcount(forwarders, last.out.transport) >= 1

\* The register calls of the step all succeeded.
NoRegisterFailed == \A c \in CallsMade(calls', "register") : c.ok

\* C22: when the directory has no subscriber matching the egress authority
\* the lookup is the empty set, not an error: an add_route that creates the
\* registry entry makes one register call, for the request/response pair,
\* and unless the transport refuses that call it returns ok with the route,
\* the pool entry and the registry entry installed.
C22_EmptyLookupStillInstalls ==
    [][(/\ last'.op = "add_route"
        /\ last'.in.authority # last'.out.authority
        /\ RouteOf(last') \notin registered_forwarding_rules
        /\ KeyOf(last') \notin DOMAIN listeners
        /\ \A s \in subscription_cache :
               s.subscriber.authority_name \notin {last'.out.authority, "*"}) =>
          /\ lookup_route_subscribers(subscription_cache, last'.out.authority) = {}
          /\ PairsOf(CallsMade(calls', "register"))
                 = { [source |-> WildcardUri(last'.in.authority),
                      sink |-> {WildcardUri(last'.out.authority)}] }
          /\ last'.err \in {"", "FailToRegisterNotificationRequestResponseListener"}
          /\ NoRegisterFailed =>
                 /\ last'.code = "OK"
                 /\ calls' = SetToBag(CallsMade(calls', "register"))
                 /\ Cardinality(BagToSet(calls')) = 1
                 /\ RouteOf(last') \in registered_forwarding_rules'
                 /\ PoolRefcount(forwarders', last'.out.transport) >= 1
                 /\ RegistryRefcount(listeners', KeyOf(last')) = 1]_vars

\* A route was installed from a directory whose only subscriber is of
\* another authority, with the request/response pair as its one
\* registration.
C22_Witness ==
    /\ last.op = "add_route"
    /\ last.code = "OK"
    /\ subscription_cache # {}
    /\ lookup_route_subscribers(subscription_cache, last.out.authority) = {}
    /\ Cardinality(BagToSet(calls)) = 1
    /\ RouteOf(last) \in registered_forwarding_rules
    /\ RegistryRefcount(listeners, KeyOf(last)) = 1

\* The routes of the route table that use the transport as egress transport.
RoutesOnEgress(t) == { r \in registered_forwarding_rules : r[4] = t }

\* The routes of the route table with the ingress triple.
RoutesOfTriple(k) ==
    { r \in registered_forwarding_rules : ListenerKey(r[3], r[1], r[2]) = k }

\* C27: between calls, whatever add_route and delete_route calls were made
\* and however they ended, a transport has an egress pool entry iff some
\* route of the route table uses it as egress transport, and the entry's
\* refcount is at least 1 and is the number of those routes.
C27_PoolEntryIffRouted ==
    \A t \in Transports :
        /\ t \in DOMAIN forwarders <=> RoutesOnEgress(t) # {}
        /\ t \in DOMAIN forwarders =>
               /\ forwarders[t].active >= 1
               /\ forwarders[t].active = Cardinality(RoutesOnEgress(t))
        /\ PoolRefcount(forwarders, t) >= 0

\* After a failed add_route its egress transport, which serves another
\* route, is back at refcount 1, and a second transport has an entry.
C27_Witness ==
    /\ last.op = "add_route"
    /\ last.err \in RegisterErrors
    /\ PoolRefcount(forwarders, last.out.transport) = 1
    /\ Cardinality(DOMAIN forwarders) = 2

\* C28: between calls, whatever add_route and delete_route calls were made
\* and however they ended, the ingress registry has an entry for (ingress
\* transport, ingress authority, egress authority) iff some route of the
\* route table has that triple, and the entry's refcount is at least 1 and
\* is the number of those routes.
C28_RegistryEntryIffRouted ==
    \A k \in RegistryKeys :
        /\ k \in DOMAIN listeners <=> RoutesOfTriple(k) # {}
        /\ k \in DOMAIN listeners =>
               /\ listeners[k].active >= 1
               /\ listeners[k].active = Cardinality(RoutesOfTriple(k))

\* After a delete_route the triple it named is still held by one route,
\* having been held by two, and another triple has an entry of its own.
C28_Witness ==
    /\ last.op = "delete_route"
    /\ last.code = "OK"
    /\ RegistryRefcount(listeners, KeyOf(last)) = 1
    /\ Cardinality(DOMAIN listeners) = 2
    /\ DOMAIN listeners \subseteq RegistryKeys

\* The register calls of the step that the transport refused.
RefusedRegisters == { c \in CallsMade(calls', "register") : ~c.ok }

\* The pairs whose register call of the step succeeded.
RegisteredPairs == PairsOf({ c \in CallsMade(calls', "register") : c.ok })

\* C29: when the register_listener call for the request/response pair fails
\* in the registry insert of an add_route, the insert's error is
\* FailToRegisterNotificationRequestResponseListener, no register call is
\* made for a publish filter, no registry entry is created, and add_route
\* returns InvalidArgument with that error as its reason.
C29_RequestRegisterFailure ==
    [][(/\ last'.op = "add_route"
        /\ \E c \in RefusedRegisters : c.sink # {}) =>
          /\ last'.err = "FailToRegisterNotificationRequestResponseListener"
          /\ last'.value = {}
          /\ \A c \in CallsMade(calls', "register") : c.sink # {}
          /\ Cardinality(CallsMade(calls', "register")) = 1
          /\ KeyOf(last') \notin DOMAIN listeners'
          /\ listeners' = listeners
          /\ last'.code = "INVALID_ARGUMENT"]_vars

\* The request/response registration of an add_route was refused for a
\* triple whose directory lookup has publish filters to register.
C29_Witness ==
    /\ last.op = "add_route"
    /\ \E c \in CallsMade(calls, "register") : ~c.ok /\ c.sink # {}
    /\ last.err = "FailToRegisterNotificationRequestResponseListener"
    /\ PublishSourceFilters(subscription_cache, last.in.authority, last.out.authority) # {}
    /\ KeyOf(last) \notin DOMAIN listeners

\* C30: when the register_listener call for a publish source filter fails
\* in the registry insert of an add_route, the insert calls
\* unregister_listener for the request/response pair and for each publish
\* filter registered before, makes no further register call, creates no
\* registry entry and increments no refcount, and its error is
\* FailToRegisterPublishListener with the source URI whose registration
\* failed.
C30_PublishRegisterFailure ==
    [][(/\ last'.op = "add_route"
        /\ \E c \in RefusedRegisters : c.sink = {}) =>
          /\ Cardinality(RefusedRegisters) = 1
          /\ last'.err = "FailToRegisterPublishListener"
          /\ last'.value = { c.source : c \in RefusedRegisters }
          /\ RequestFilterPair(last'.in.authority, last'.out.authority) \in RegisteredPairs
          /\ PairsOf(CallsMade(calls', "unregister")) = RegisteredPairs
          /\ \A c \in CallsMade(calls', "unregister") : c.listener = last'.listener
          /\ BagCardinality(calls')
                 = Cardinality(CallsMade(calls', "register"))
                      + Cardinality(RegisteredPairs)
          /\ Cardinality(CallsMade(calls', "register")) = Cardinality(RegisteredPairs) + 1
          /\ KeyOf(last') \notin DOMAIN listeners'
          /\ listeners' = listeners
          /\ last'.code = "INVALID_ARGUMENT"]_vars

\* The third register call of an add_route, for a publish filter, was
\* refused after the request/response pair and one publish filter were
\* registered, and both were unregistered.
C30_Witness ==
    /\ last.op = "add_route"
    /\ last.err = "FailToRegisterPublishListener"
    /\ Cardinality(last.value) = 1
    /\ Cardinality({ c \in CallsMade(calls, "register") : c.ok }) = 2
    /\ Cardinality(CallsMade(calls, "unregister")) = 2
    /\ Cardinality(PublishSourceFilters(subscription_cache, last.in.authority, last.out.authority)) >= 2

\* C26: the rollback of a registry insert calls unregister_listener only
\* for pairs whose register_listener call succeeded in that insert; when the
\* request/response registration is the call that failed, it calls
\* unregister_listener for nothing.
C26_RollbackOnlyOfRegistered ==
    [][last'.op = "add_route" =>
          /\ PairsOf(CallsMade(calls', "unregister")) \subseteq RegisteredPairs
          /\ (\E c \in RefusedRegisters : c.sink # {}) =>
                 CallsMade(calls', "unregister") = {}]_vars

\* C23: when add_route or delete_route calls register_listener or
\* unregister_listener on a transport, none of the streamer's locks (route
\* table, egress pool, ingress registry, subscription cache) is held.
C23_NoLockAcrossTransportCalls ==
    \A c \in BagToSet(calls) : c.held \cap StreamerLocks = {}

\* C25: once delete_route(a, b) has returned ok and no installed route has
\* b's egress transport instance, no message the ingress transport delivers
\* from then on is sent on that transport instance, whatever add_route and
\* delete_route calls came before, routes sharing an ingress registry entry
\* with different egress transports included.
C25_NothingSentAfterDelete ==
    [][(last'.op = "dispatch" /\ last'.code = "sent") =>
          \A mark \in history.routes :
              mark[1] = last'.out.transport => last'.msg.id <= mark[2]]_vars

\* The pool holds no entry whose sender feeds the queue.
EntryClosed(fw, c) == \A t \in DOMAIN fw : fw[t].chan # c

\* C24: when the refcount of an egress pool entry reaches zero in a
\* delete_route, the entry's broadcast queue is closed at that point, no
\* sender of it being left, so that its worker finds it closed; and a
\* callback in flight that publishes after the entry was closed has its
\* publish fail, the message never reaching the queue of the worker.
C24_ClosedEntryClosesQueue ==
    [][/\ (/\ last'.op = "delete_route"
            /\ last'.code = "OK"
            /\ last'.out.transport \in DOMAIN forwarders
            /\ last'.out.transport \notin DOMAIN forwarders') =>
              ~SenderAlive(forwarders[last'.out.transport].chan, forwarders',
                           listener_sender')
       /\ (/\ last'.op = "on_receive"
            /\ last'.code \in {"published", "send_failed"}
            /\ EntryClosed(forwarders, last'.chan)) =>
              /\ last'.code = "send_failed"
              /\ UNCHANGED channels]_vars

\* The references the egress pool counts, over all transports.
RECURSIVE PoolReferences(_, _)
PoolReferences(fw, transports) ==
    IF transports = {} THEN 0
    ELSE LET t == CHOOSE x \in transports : TRUE
         IN PoolRefcount(fw, t) + PoolReferences(fw, transports \ {t})

\* C37: in every reachable state no entry of the route table has an ingress
\* authority equal to its egress authority, and no RouteKey is in the table
\* twice: the table holds one key per accepted route, each accepted route
\* having taken one reference in the egress pool.
C37_RouteTableWellFormed ==
    /\ \A r \in registered_forwarding_rules : r[1] # r[2]
    /\ Cardinality(registered_forwarding_rules) = PoolReferences(forwarders, Transports)

\* A duplicate add_route was refused while the table holds its route and
\* another one.
C37_Witness ==
    /\ last.op = "add_route"
    /\ last.code = "ALREADY_EXISTS"
    /\ RouteOf(last) \in registered_forwarding_rules
    /\ Cardinality(registered_forwarding_rules) >= 2

\* C40: no route of the route table has an empty ingress authority or an
\* empty egress authority, whatever endpoints were built and passed to
\* add_route.
C40_NoEmptyAuthorityInstalled ==
    \A r \in registered_forwarding_rules : r[1] # "" /\ r[2] # ""

\* C38: the fetch_subscriptions request issued at construction names the
\* universal subscriber: authority "*", ue_id 0xFFFFFFFF, version 0xFF,
\* resource id 0xFFFF.
C38_FetchNamesUniversalSubscriber ==
    usubscription.fetch_calls >= 1 =>
        usubscription.subscribers = { UUri("*", <<65535, 65535>>, 255, 65535) }

\* C39: whatever queue_capacity of the u16 range the streamer was
\* constructed with, 0 included, an add_route returns ok or one of its
\* documented failures; it never aborts while creating the queue of a new
\* egress transport.
C39_AddRouteNeverAborts ==
    [][last'.op = "add_route" =>
          /\ last'.code \in {"OK", "INVALID_ARGUMENT", "ALREADY_EXISTS"}
          /\ last'.code # "panic"]_vars

\* The unregister calls of the step that the transport refused.
RefusedUnregisters == { c \in CallsMade(calls', "unregister") : ~c.ok }

\* C31: when an unregister_listener call fails while the registry insert of
\* an add_route is rolling back, the rollback still calls
\* unregister_listener for every pair of the rollback set, and the error of
\* the insert and of add_route is the registration failure that started the
\* rollback, never the unregister failure.
C31_RollbackFailureNotReturned ==
    [][(last'.op = "add_route" /\ RefusedUnregisters # {}) =>
          /\ Cardinality(RefusedRegisters) = 1
          /\ RegisteredPairs \subseteq PairsOf(CallsMade(calls', "unregister"))
          /\ PairsOf(CallsMade(calls', "unregister"))
                 = RegisteredPairs
                      \cup {RequestFilterPair(last'.in.authority, last'.out.authority)}
          /\ last'.code = "INVALID_ARGUMENT"
          /\ last'.err \in RegisterErrors
          /\ \A c \in RefusedRegisters :
                 IF c.sink # {}
                 THEN last'.err = "FailToRegisterNotificationRequestResponseListener"
                 ELSE /\ last'.err = "FailToRegisterPublishListener"
                      /\ last'.value = {c.source}
          /\ KeyOf(last') \notin DOMAIN listeners']_vars

\* The rollback of a failed publish registration had an unregister call
\* refused and another one answered.
C31_Witness ==
    /\ last.op = "add_route"
    /\ last.err = "FailToRegisterPublishListener"
    /\ \E c \in CallsMade(calls, "unregister") : ~c.ok
    /\ \E c \in CallsMade(calls, "unregister") : c.ok
    /\ Cardinality(CallsMade(calls, "unregister")) >= 2

\* C32: when the registry remove of a delete_route brings the refcount to
\* zero and an unregister_listener call fails, for the request/response
\* pair or for a publish pair, unregister_listener is still called for every
\* other pair of the triple, the registry entry is gone and delete_route
\* returns ok.
C32_UnregisterFailureNotFatal ==
    [][(last'.op = "delete_route" /\ RefusedUnregisters # {}) =>
          /\ PairsOf(CallsMade(calls', "unregister"))
                 = ExpectedFilterPairs(last'.in.authority, last'.out.authority)
          /\ \A pair \in ExpectedFilterPairs(last'.in.authority, last'.out.authority)
                            \ PairsOf(RefusedUnregisters) :
                 \A r \in transport_listeners'[last'.in.transport] :
                     r.listener = listeners[KeyOf(last')].listener =>
                         [source |-> r.source, sink |-> r.sink] # pair
          /\ KeyOf(last') \in DOMAIN listeners
          /\ KeyOf(last') \notin DOMAIN listeners'
          /\ RouteOf(last') \notin registered_forwarding_rules'
          /\ last'.code = "OK"]_vars

\* A delete_route returned ok although the unregister call for the
\* request/response pair and the one for a publish pair were refused, a
\* third one being answered.
C32_Witness ==
    /\ last.op = "delete_route"
    /\ last.code = "OK"
    /\ \E c \in CallsMade(calls, "unregister") : ~c.ok /\ c.sink # {}
    /\ \E c \in CallsMade(calls, "unregister") : ~c.ok /\ c.sink = {}
    /\ \E c \in CallsMade(calls, "unregister") : c.ok
    /\ KeyOf(last) \notin DOMAIN listeners

\* C33: add_route validates, then reserves the route in the route table,
\* then acquires or increments the egress worker, then acquires or
\* increments the ingress listener: when a register_listener call is made
\* for a route, the route is in the route table and the pool entry of its
\* egress transport exists with its queue and worker, and the listener that
\* is registered feeds that queue.
C33_RegisteredBehindLiveQueue ==
    [][(last'.op = "add_route" /\ CallsMade(calls', "register") # {}) =>
          /\ RouteOf(last') \in registered_forwarding_rules
          /\ last'.out.transport \in DOMAIN forwarders
          /\ forwarders[last'.out.transport].active >= 1
          /\ channels[forwarders[last'.out.transport].chan].transport = last'.out.transport
          /\ \A c \in CallsMade(calls', "register") :
                 listener_sender'[c.listener] \in {0, forwarders[last'.out.transport].chan}]_vars

\* The listener step of an add_route registered its filters for a route
\* reserved and given its worker in the two steps before.
C33_Witness ==
    /\ last.op = "add_route"
    /\ last.code = "OK"
    /\ Cardinality(CallsMade(calls, "register")) = 3
    /\ RouteOf(last) \in registered_forwarding_rules
    /\ last.out.transport \in DOMAIN forwarders
    /\ \A c \in CallsMade(calls, "register") :
          listener_sender[c.listener] = forwarders[last.out.transport].chan

\* The listeners the ingress transports hold, with the transport of each.
HeldListeners ==
    { h \in Transports \X Listeners : \E r \in transport_listeners[h[1]] : r.listener = h[2] }

\* C34: on_receive of an ingress listener completes without waiting for the
\* egress worker: a message can be handed to any listener a transport holds
\* whatever the state of its queue; a publish into a full queue returns at
\* once, overwrites the oldest unread message and leaves the worker to be
\* told of lag on its next turn; a publish into a queue without receiver
\* fails, queues nothing, is not retried, and the callback returns with the
\* listener still registered.
C34_OnReceiveNeverWaits ==
    /\ [](\A h \in HeldListeners :
            (/\ history.delivered < MaxMessages
             /\ channels[listener_sender[h[2]]].lagged < MaxLag)
            => ENABLED Deliver(h[1], h[2], "PROTOBUF"))
    /\ [][/\ history'.delivered = history.delivered + 1 =>
              LET c == listener_sender[last'.listener]
                  msg == last'.msg
              IN /\ last'.op = "on_receive"
                 /\ transport_listeners' = transport_listeners
                 /\ listeners' = listeners
                 /\ listener_sender' = listener_sender
                 /\ (msg.payload_format # "SHM" /\ channels[c].transport # ""
                       /\ Len(channels[c].queue) = ChannelCapacity) =>
                        /\ last'.code = "published"
                        /\ channels'[c].queue = Append(Tail(channels[c].queue), msg)
                        /\ channels'[c].lagged = channels[c].lagged + 1
                 /\ (msg.payload_format # "SHM" /\ channels[c].transport = "") =>
                        /\ last'.code = "send_failed"
                        /\ channels' = channels
                        /\ history'.published = history.published
          /\ (last'.op = "dispatch" /\ channels[last'.chan].lagged > 0) =>
                 /\ last'.code = "lagged"
                 /\ channels'[last'.chan].queue = channels[last'.chan].queue
                 /\ history'.skipped[last'.chan] =
                       history.skipped[last'.chan] + channels[last'.chan].lagged]_vars

\* A listener published into a full queue, the worker was told of the lag,
\* the worker's thread then ended, and the listener's next publish failed.
C34_Witness ==
    /\ last.op = "on_receive"
    /\ last.code = "send_failed"
    /\ \E r \in transport_listeners[last.in.transport] : r.listener = last.listener
    /\ \E c \in Chans : history.skipped[c] > 0 /\ Len(history.published[c]) >= 2

\* The queue, and what was logged for it, is the same after the step.
QueueUntouched(c) ==
    /\ channels'[c] = channels[c]
    /\ history'.published[c] = history.published[c]
    /\ history'.sent[c] = history.sent[c]
    /\ history'.skipped[c] = history.skipped[c]
    /\ history'.failed[c] = history.failed[c]

\* C35: each egress transport of the pool has its own queue and its own
\* worker; a publish into one queue or a turn of its worker (a send, a
\* failed send, a lag) changes nothing of another queue; a worker with
\* something to receive can take its turn whatever the state of the other
\* queue; and what a worker passed to send is, in order, what was published
\* into its own queue, complete as long as that worker itself never lagged.
C35_EgressTransportsIsolated ==
    /\ [](\A t, u \in DOMAIN forwarders :
            /\ channels[forwarders[t].chan].transport = t
            /\ t # u => forwarders[t].chan # forwarders[u].chan)
    /\ [](\A c \in Chans :
            (channels[c].transport # "" /\ (channels[c].queue # <<>> \/ channels[c].lagged > 0))
            => ENABLED Dispatch(c, TRUE))
    /\ [](\A c \in Chans :
            /\ IsSubsequence(history.sent[c], history.published[c])
            /\ history.skipped[c] = 0 /\ channels[c].lagged = 0 =>
                   history.sent[c] \o channels[c].queue = history.published[c])
    /\ [][last'.op \in {"dispatch", "on_receive"} =>
             \A c \in Chans \ {last'.chan} : QueueUntouched(c)]_vars

\* Two queues are live; the worker of one lagged and had a send fail while
\* the worker of the other passed on everything published into its queue.
C35_Witness ==
    \E c, d \in Chans :
        /\ c # d
        /\ channels[c].transport # ""
        /\ channels[d].transport # ""
        /\ history.skipped[c] > 0
        /\ history.failed[c] > 0
        /\ history.skipped[d] = 0
        /\ history.failed[d] = 0
        /\ history.sent[d] # <<>>
        /\ history.sent[d] = history.published[d]

\* The step is the delete_route that completes a round trip of a route.
TripCompleted ==
    /\ history.routes # NoTrip
    /\ history'.routes # NoTrip
    /\ TripOf(history).stage = "added"
    /\ TripOf(history').stage = "deleted"

\* The step is an add_route of the route whose round trip was just completed.
AddAfterTrip ==
    /\ history.routes # NoTrip
    /\ TripOf(history).stage = "deleted"
    /\ last'.op = "add_route"
    /\ last'.in = TripOf(history).in
    /\ last'.out = TripOf(history).out

\* C36 as stated: after add_route(a, b) succeeded and delete_route(a, b)
\* succeeded, the route table, the egress pool, the ingress registry and the
\* registrations on the ingress transport are what they were before the
\* add_route.
C36_RoundTripAsStated ==
    [][TripCompleted =>
          /\ registered_forwarding_rules' = TripOf(history).rules
          /\ forwarders' = TripOf(history).forwarders
          /\ listeners' = TripOf(history).listeners
          /\ transport_listeners' = TripOf(history).transport_listeners]_vars

\* C36: after add_route(a, b) succeeded and delete_route(a, b) succeeded,
\* the route table, the egress pool (entries and refcounts) and the ingress
\* registry (entries and refcounts) are what they were before the add_route;
\* the pairs registered on the ingress transport are those registered
\* before plus the pairs whose unregister_listener call the transport
\* refused, so they are the same when every unregister call was answered;
\* and then a later add_route(a, b) is not refused as already existing and,
\* when the transport answers its register calls, succeeds and registers
\* the pairs the first add_route registered.
C36_RoundTripWhenUnregistered ==
    [][/\ TripCompleted =>
             /\ registered_forwarding_rules' = TripOf(history).rules
             /\ forwarders' = TripOf(history).forwarders
             /\ listeners' = TripOf(history).listeners
             /\ \A t \in Transports :
                    PairsOf(transport_listeners'[t]) =
                        PairsOf(TripOf(history).transport_listeners[t])
                            \cup (IF t = TripOf(history).in.transport
                                  THEN TripOf(history').refused ELSE {})
             /\ TripOf(history').refused = {} =>
                    transport_listeners' = TripOf(history).transport_listeners
       /\ (AddAfterTrip /\ TripOf(history).refused = {}) =>
             /\ last'.code # "ALREADY_EXISTS"
             /\ RefusedRegisters = {} =>
                    /\ last'.code = "OK"
                    /\ RegisteredPairs = TripOf(history).registered
                    /\ history'.routes # NoTrip
                    /\ TripOf(history').again]_vars

\* A route was added, deleted with every unregister call answered, and
\* added again, registering its three filter pairs anew.
C36_Witness ==
    /\ history.routes # NoTrip
    /\ TripOf(history).stage = "added"
    /\ TripOf(history).again
    /\ Cardinality(TripOf(history).registered) = 3
    /\ last.op = "add_route"
    /\ last.code = "OK"

====
